---------------------------- MODULE Spec2Model ----------------------------
(***************************************************************************)
(* A model of the editing engine of reedline: the Editor of                *)
(* src/core_editor/editor.rs with its undo stack, selection anchor and     *)
(* clipboard slots, the command model of src/enums.rs, and the kitty       *)
(* keyboard-protocol guard.                                                *)
(*                                                                         *)
(* Text is a sequence of one-byte characters, so byte offsets are          *)
(* positions 0 .. Len.  The only multi-character grapheme cluster is       *)
(* CR LF: offset k is a grapheme boundary unless it lies between a CR and  *)
(* the LF that follows it.  Offsets are 0-based, as in the source.         *)
(*                                                                         *)
(* LineBuffer, EditStack and the Clipboard implementations are not among   *)
(* the source files; their operators below are written from spec.md (4.1,  *)
(* 4.5, 4.6) and are marked so in the model map.                           *)
(***************************************************************************)
EXTENDS Integers, Sequences, FiniteSets, TLC

LF == "LF"
CR == "CR"
SP == " "

\* Option::None for an offset or a character
None == -1
NoChar == "None"

Whitespace == {SP, LF, CR}
WordChars == {"a", "b", "A", "B", "_"}
Punct == {"-", "(", ")", "'", "."}
Char == Whitespace \cup WordChars \cup Punct

Min(S) == CHOOSE x \in S : \A y \in S : x <= y
Max(S) == CHOOSE x \in S : \A y \in S : x >= y

\* s[a..b) with 0-based byte offsets, as a Rust slice
Slice(s, a, b) == SubSeq(s, a + 1, b)

\* char::is_whitespace
is_whitespace(c) == c \in Whitespace

\* char::to_uppercase / to_lowercase on the model's alphabet
to_uppercase(c) == IF c = "a" THEN "A" ELSE IF c = "b" THEN "B" ELSE c
to_lowercase(c) == IF c = "A" THEN "a" ELSE IF c = "B" THEN "b" ELSE c

(***************************************************************************)
(* LineBuffer (spec.md 3 and 4.1)                                          *)
(***************************************************************************)

\* offset i is a grapheme-cluster boundary of lines
IsBoundary(lines, i) ==
    /\ 0 <= i
    /\ i <= Len(lines)
    /\ ~(0 < i /\ i < Len(lines) /\ lines[i] = CR /\ lines[i + 1] = LF)

\* "methods that do not receive a valid boundary fail by clamping to the
\* nearest valid boundary": inside a CR LF both neighbours are equally near,
\* tie (-1 or 1) is the side taken
ClampToBoundary(lines, pos, tie) ==
    IF pos >= Len(lines) THEN Len(lines)
    ELSE IF IsBoundary(lines, pos) THEN pos
    ELSE pos + tie

MkLineBuffer(lines, pos, tie) ==
    [lines |-> lines, insertion_point |-> ClampToBoundary(lines, pos, tie)]

LineBuffer_new == [lines |-> <<>>, insertion_point |-> 0]

set_insertion_point(lb, offset, tie) == MkLineBuffer(lb.lines, offset, tie)

grapheme_right_index_from_pos(lb, pos) ==
    IF pos >= Len(lb.lines) THEN Len(lb.lines)
    ELSE IF pos + 2 <= Len(lb.lines) /\ lb.lines[pos + 1] = CR /\ lb.lines[pos + 2] = LF
         THEN pos + 2
    ELSE pos + 1

grapheme_right_index(lb) == grapheme_right_index_from_pos(lb, lb.insertion_point)

grapheme_left_index(lb) ==
    LET pos == lb.insertion_point IN
    IF pos = 0 THEN 0
    ELSE IF pos >= 2 /\ pos <= Len(lb.lines) /\ lb.lines[pos - 1] = CR /\ lb.lines[pos] = LF
         THEN pos - 2
    ELSE pos - 1

\* the grapheme cluster right / left of the cursor ("" when there is none)
grapheme_right(lb) == Slice(lb.lines, lb.insertion_point, grapheme_right_index(lb))
grapheme_left(lb) == Slice(lb.lines, grapheme_left_index(lb), lb.insertion_point)

\* character classes of the small-word and big-word segmentation
WordClass(c) ==
    IF c \in Whitespace THEN "ws" ELSE IF c \in WordChars THEN "word" ELSE "punct"
BigWordClass(c) == IF c \in Whitespace THEN "ws" ELSE "word"

\* class of the character at offset i for the small-word segmentation: a
\* '.' directly between two word characters does not end the word (the cut
\* of the word left of the end of "abc def.ghi" leaves "abc ")
SmallWordClass(lines, i) ==
    IF /\ lines[i + 1] = "."
       /\ 0 < i /\ i + 1 < Len(lines)
       /\ lines[i] \in WordChars /\ lines[i + 2] \in WordChars
    THEN "word"
    ELSE WordClass(lines[i + 1])

\* start of the last non-whitespace run of lines[0..pos), 0 when there is none
RunLeftIndex(lines, pos, big) ==
    LET cls(i) == IF big THEN BigWordClass(lines[i + 1]) ELSE SmallWordClass(lines, i)
        nonws == {j \in 0..(pos - 1) : cls(j) # "ws"}
    IN  IF nonws = {} THEN 0
        ELSE LET j == Max(nonws)
             IN  Min({s \in 0..j : \A k \in s..j : cls(k) = cls(j)})

\* start of the first non-whitespace run that begins after pos, Len when none
RunRightStartIndex(lines, pos, big) ==
    LET cls(i) == IF big THEN BigWordClass(lines[i + 1]) ELSE SmallWordClass(lines, i)
        starts == {i \in (pos + 1)..(Len(lines) - 1) :
                      cls(i) # "ws" /\ cls(i) # cls(i - 1)}
    IN  IF starts = {} THEN Len(lines) ELSE Min(starts)

\* offset of the last character of the first non-whitespace run ending after
\* pos; the last grapheme of the buffer when there is none
RunRightEndIndex(lines, pos, big) ==
    LET cls(i) == IF big THEN BigWordClass(lines[i + 1]) ELSE SmallWordClass(lines, i)
        ends == {i \in (pos + 1)..(Len(lines) - 1) :
                    cls(i) # "ws" /\ (i = Len(lines) - 1 \/ cls(i + 1) # cls(i))}
        n == Len(lines)
    IN  IF ends # {} THEN Min(ends)
        ELSE IF n = 0 THEN 0
        ELSE IF n >= 2 /\ lines[n - 1] = CR /\ lines[n] = LF THEN n - 2
        ELSE n - 1

word_left_index(lb) == RunLeftIndex(lb.lines, lb.insertion_point, FALSE)
big_word_left_index(lb) == RunLeftIndex(lb.lines, lb.insertion_point, TRUE)
word_right_start_index(lb) == RunRightStartIndex(lb.lines, lb.insertion_point, FALSE)
big_word_right_start_index(lb) == RunRightStartIndex(lb.lines, lb.insertion_point, TRUE)
word_right_end_index(lb) == RunRightEndIndex(lb.lines, lb.insertion_point, FALSE)
big_word_right_end_index(lb) == RunRightEndIndex(lb.lines, lb.insertion_point, TRUE)

\* offset of the first c in lines[from..to), None when there is none
FindFirst(lines, c, from, to) ==
    LET hits == {i \in from..(to - 1) : lines[i + 1] = c}
    IN  IF hits = {} THEN None ELSE Min(hits)

\* offset of the last c in lines[from..to), None when there is none
FindLast(lines, c, from, to) ==
    LET hits == {i \in from..(to - 1) : lines[i + 1] = c}
    IN  IF hits = {} THEN None ELSE Max(hits)

\* end of the line content that an LF at offset i terminates: a CR directly
\* before the LF belongs to the terminator
LineEndAt(lines, i, floor) ==
    IF i > floor /\ lines[i] = CR THEN i - 1 ELSE i

find_current_line_start(lb) ==
    LET i == FindLast(lb.lines, LF, 0, lb.insertion_point)
    IN  IF i = None THEN 0 ELSE i + 1

find_current_line_end(lb) ==
    LET i == FindFirst(lb.lines, LF, lb.insertion_point, Len(lb.lines))
    IN  IF i = None THEN Len(lb.lines) ELSE LineEndAt(lb.lines, i, 0)

\* start of the line that ends just before offset pos (pos is a line start > 0)
find_line_start_before(lb, pos) ==
    LET i == FindLast(lb.lines, LF, 0, pos - 1)
    IN  IF i = None THEN 0 ELSE i + 1

\* end of the content of the line that starts at offset pos
find_line_end_after(lb, pos) ==
    LET i == FindFirst(lb.lines, LF, pos, Len(lb.lines))
    IN  IF i = None THEN Len(lb.lines) ELSE LineEndAt(lb.lines, i, pos)

\* forward search skips the grapheme under the cursor; whole-buffer scope
find_char_right(lb, c) ==
    FindFirst(lb.lines, c, grapheme_right_index(lb), Len(lb.lines))

find_char_left(lb, c) == FindLast(lb.lines, c, 0, lb.insertion_point)


\* insert at the cursor; the cursor ends behind the inserted text
insert_str(lb, str, tie) ==
    LET pos == lb.insertion_point
        new == Slice(lb.lines, 0, pos) \o str \o Slice(lb.lines, pos, Len(lb.lines))
    IN  MkLineBuffer(new, pos + Len(str), tie)

insert_char(lb, c, tie) == insert_str(lb, <<c>>, tie)

insert_newline(lb, tie) == insert_char(lb, LF, tie)

\* "Range clearing: removes a byte range and repositions any now-invalid
\* insertion point to the range start; range bounds are clamped to buffer
\* length and reordered if reversed."
clear_range(lb, from, to, tie) ==
    LET n == Len(lb.lines)
        lo == Min({Min({from, to}), n})
        hi == Min({Max({from, to}), n})
        new == Slice(lb.lines, 0, lo) \o Slice(lb.lines, hi, n)
        pos == lb.insertion_point
    IN  MkLineBuffer(new, IF pos <= lo THEN pos ELSE IF pos <= hi THEN lo ELSE pos - (hi - lo), tie)

clear_range_safe(lb, start, end, tie) == clear_range(lb, start, end, tie)

delete_left_grapheme(lb, tie) ==
    LET left_index == grapheme_left_index(lb)
    IN  IF left_index < lb.insertion_point
        THEN clear_range(lb, left_index, lb.insertion_point, tie)
        ELSE lb

delete_right_grapheme(lb, tie) ==
    LET right_index == grapheme_right_index(lb)
    IN  IF right_index > lb.insertion_point
        THEN clear_range(lb, lb.insertion_point, right_index, tie)
        ELSE lb

\* LineBuffer::set_buffer: "Insertion point update to the end of the buffer"
LineBuffer_set_buffer(lb, buffer) ==
    [lines |-> buffer, insertion_point |-> Len(buffer)]

move_to_line_start(lb) ==
    [lb EXCEPT !.insertion_point = find_current_line_start(lb)]

\* "Up/down preserve the cursor's column offset relative to line start,
\* clamped to the shorter of the two lines' lengths"
LineBuffer_move_line_up(lb, tie) ==
    LET start == find_current_line_start(lb)
        col == lb.insertion_point - start
    IN  IF start = 0 THEN lb
        ELSE LET prev_start == find_line_start_before(lb, start)
                 prev_end == find_line_end_after(lb, prev_start)
             IN  MkLineBuffer(lb.lines, prev_start + Min({col, prev_end - prev_start}), tie)

\* the word under (or right of) the cursor, as a range
CurrentWordRange(lb) ==
    LET right == RunRightEndIndex(lb.lines, IF lb.insertion_point = 0 THEN 0 ELSE lb.insertion_point - 1, FALSE)
        end == Min({Len(lb.lines), right + 1})
        start == RunLeftIndex(lb.lines, end, FALSE)
    IN  <<start, end>>

MapRange(lines, from, to, F(_)) ==
    [i \in 1..Len(lines) |-> IF from < i /\ i <= to THEN F(lines[i]) ELSE lines[i]]

uppercase_word(lb, tie) ==
    LET r == CurrentWordRange(lb)
    IN  MkLineBuffer(MapRange(lb.lines, r[1], r[2], to_uppercase), lb.insertion_point, tie)

lowercase_word(lb, tie) ==
    LET r == CurrentWordRange(lb)
    IN  MkLineBuffer(MapRange(lb.lines, r[1], r[2], to_lowercase), lb.insertion_point, tie)

SwitchCase(c) == IF to_uppercase(c) # c THEN to_uppercase(c) ELSE to_lowercase(c)

\* "toggle-case current character (advances cursor)"
switchcase_char(lb, tie) ==
    LET pos == lb.insertion_point
        right == grapheme_right_index(lb)
    IN  MkLineBuffer(MapRange(lb.lines, pos, right, SwitchCase), right, tie)

\* "capitalize current character"
capitalize_char(lb, tie) ==
    LET pos == lb.insertion_point
        right == grapheme_right_index(lb)
    IN  MkLineBuffer(MapRange(lb.lines, pos, right, to_uppercase), pos, tie)

\* "swap-adjacent-graphemes": the graphemes left and right of the cursor
\* change places (at the end of the buffer: the last two), cursor behind them
swap_graphemes(lb, tie) ==
    LET n == Len(lb.lines)
        at == IF lb.insertion_point = n /\ n > 0
              THEN [lb EXCEPT !.insertion_point = grapheme_left_index(lb)]
              ELSE lb
        l == grapheme_left_index(at)
        m == at.insertion_point
        r == grapheme_right_index(at)
    IN  IF l = m \/ m = r THEN lb
        ELSE MkLineBuffer(Slice(lb.lines, 0, l) \o Slice(lb.lines, m, r)
                            \o Slice(lb.lines, l, m) \o Slice(lb.lines, r, n), r, tie)

\* "swap-adjacent-words": the word under the cursor and the word before it
\* change places, cursor behind them
swap_words(lb, tie) ==
    LET n == Len(lb.lines)
        cur == CurrentWordRange(lb)
        prev_start == RunLeftIndex(lb.lines, cur[1], FALSE)
        prev_last == RunRightEndIndex(lb.lines, IF prev_start = 0 THEN 0 ELSE prev_start - 1, FALSE)
        prev_end == Min({n, prev_last + 1})
    IN  IF cur[1] >= cur[2] \/ prev_end > cur[1] \/ prev_start >= prev_end THEN lb
        ELSE MkLineBuffer(Slice(lb.lines, 0, prev_start) \o Slice(lb.lines, cur[1], cur[2])
                            \o Slice(lb.lines, prev_end, cur[1])
                            \o Slice(lb.lines, prev_start, prev_end)
                            \o Slice(lb.lines, cur[2], n), cur[2], tie)

(***************************************************************************)
(* EditStack (spec.md 3, 4.6 and 9): a list of snapshots and an index      *)
(***************************************************************************)

EditStack_new == [internal_list |-> <<LineBuffer_new>>, index |-> 0]

EditStack_current(st) == st.internal_list[st.index + 1]

\* "move the stack index one step back ... (clamped at the ends)"
EditStack_undo(st) ==
    [st EXCEPT !.index = IF st.index = 0 THEN 0 ELSE st.index - 1]

EditStack_redo(st) ==
    [st EXCEPT !.index = IF st.index = Len(st.internal_list) - 1
                         THEN st.index ELSE st.index + 1]

\* "committing a new edit after undo() must discard all entries beyond the
\* current index before pushing"
EditStack_insert(st, value) ==
    [internal_list |-> Append(SubSeq(st.internal_list, 1, st.index + 1), value),
     index |-> st.index + 1]

EditStack_reset(st) == EditStack_new

(***************************************************************************)
(* Clipboard (spec.md 3 and 4.5): text plus a paste-mode tag               *)
(***************************************************************************)

Clipboard_new == [content |-> <<>>, mode |-> "Normal"]

Clipboard_set(cb, content, mode) == [content |-> content, mode |-> mode]

Clipboard_get(cb) == cb

(***************************************************************************)
(* The command model (src/enums.rs)                                        *)
(***************************************************************************)

MotionKinds == {"MoveLeft", "MoveRight", "MoveWordLeft", "MoveWordRight",
                "MoveBigWordLeft", "MoveBigWordRight", "MoveToLineStart",
                "MoveToLineEnd", "MoveToStart", "MoveToEnd", "MoveWordRightEnd",
                "MoveBigWordRightEnd", "MoveLineUp", "MoveLineDown",
                "MoveUntilChar", "MoveToPosition"}

\* the variants the MotionKind enum declares
MotionKindVariants ==
    {"MoveLeft", "MoveRight", "MoveWordLeft", "MoveWordRight", "MoveBigWordLeft",
     "MoveBigWordRight", "MoveToLineStart", "MoveToLineEnd", "MoveUntilChar"}

\* the variants the EditCommand enum declares
EditCommandVariants ==
    {"InsertChar", "InsertString", "InsertNewline", "ReplaceChar", "ReplaceChars",
     "Motion", "Backspace", "Delete", "OperateInsidePair", "Undo", "Redo",
     "SwapGraphemes", "SwapWords", "UppercaseWord", "LowercaseWord", "SwitchcaseChar",
     "CapitalizeChar", "SelectAll", "Clear", "ClearToLineEnd", "CutSelection",
     "CopySelection", "PasteCutBuffer"}

\* the variants the match of run_edit_command has an arm for
run_edit_command_arms ==
    {"InsertChar", "InsertString", "InsertNewline", "ReplaceChar", "ReplaceChars",
     "Motion", "Backspace", "Delete", "OperateInsidePair", "Undo", "Redo",
     "SwapGraphemes", "SwapWords", "UppercaseWord", "LowercaseWord", "SwitchcaseChar",
     "CapitalizeChar", "CutSelection", "CopySelection", "PasteCutBuffer", "SelectAll",
     "CutSelectionSystem", "CopySelectionSystem", "PasteSystem"}

\* a MotionKind value; c, inclusive, forward belong to MoveUntilChar and pos to
\* MoveToPosition
MotionKind(kind, c, inclusive, forward, pos) ==
    [kind |-> kind, c |-> c, inclusive |-> inclusive, forward |-> forward, pos |-> pos]

Motion0(kind) == MotionKind(kind, NoChar, FALSE, FALSE, 0)

\* a MotionAction value; select belongs to MoveCursor
MotionAction(act, select) == [act |-> act, select |-> select]

\* an EditCommand value, with the fields of all variants
EditCommand(op, c, str, n, motion, action, left_char, right_char, pair) ==
    [op |-> op, c |-> c, str |-> str, n |-> n, motion |-> motion, action |-> action,
     left_char |-> left_char, right_char |-> right_char, pair |-> pair]

Command0(op) ==
    EditCommand(op, NoChar, <<>>, 0, Motion0("MoveLeft"), MotionAction("MoveCursor", FALSE),
                NoChar, NoChar, "CutInside")

InsertChar(c) == [Command0("InsertChar") EXCEPT !.c = c]
InsertString(str) == [Command0("InsertString") EXCEPT !.str = str]
ReplaceChar(c) == [Command0("ReplaceChar") EXCEPT !.c = c]
ReplaceChars(n, str) == [Command0("ReplaceChars") EXCEPT !.n = n, !.str = str]
Motion(motion, action) == [Command0("Motion") EXCEPT !.motion = motion, !.action = action]
OperateInsidePair(left_char, right_char, pair) ==
    [Command0("OperateInsidePair") EXCEPT
        !.left_char = left_char, !.right_char = right_char, !.pair = pair]

\* EditCommand::edit_type.  The function still lists the per-motion commands
\* that Motion{motion, action} replaced: a cursor move keeps its select flag,
\* the cuts (and deletes) are text edits, the copies are NoOp.
EditType(type, select) == [type |-> type, select |-> select]

edit_type(command) ==
    CASE command.op = "Motion" /\ command.action.act = "MoveCursor" ->
            EditType("MoveCursor", command.action.select)
      [] command.op = "Motion" /\ command.action.act \in {"Cut", "Delete"} ->
            EditType("EditText", FALSE)
      [] command.op = "Motion" /\ command.action.act = "Copy" -> EditType("NoOp", FALSE)
      [] command.op = "SelectAll" -> EditType("MoveCursor", TRUE)
      [] command.op \in {"Undo", "Redo"} -> EditType("UndoRedo", FALSE)
      [] command.op \in {"CopySelection", "CopySelectionSystem"} -> EditType("NoOp", FALSE)
      [] OTHER -> EditType("EditText", FALSE)

\* an UndoBehavior value; c is the tracked character of InsertCharacter,
\* Backspace and Delete (NoChar for Option::None)
UndoBehavior(tag, c) == [tag |-> tag, c |-> c]

UB_MoveCursor == UndoBehavior("MoveCursor", NoChar)
UB_HistoryNavigation == UndoBehavior("HistoryNavigation", NoChar)
UB_CreateUndoPoint == UndoBehavior("CreateUndoPoint", NoChar)
UB_UndoRedo == UndoBehavior("UndoRedo", NoChar)

\* UndoBehavior::create_undo_point_after
\* create_undo_point_after that opens an entry for every history navigation
create_undo_point_after_each_navigation(self, previous) ==
    CASE self.tag = "MoveCursor" -> FALSE
      [] previous.tag = "InsertCharacter" /\ self.tag = "InsertCharacter" ->
            \/ previous.c = LF \/ previous.c = CR
            \/ (~is_whitespace(previous.c) /\ is_whitespace(self.c))
      [] OTHER -> TRUE

\* create_undo_point_after with the two characters of an insertion swapped
create_undo_point_after_swapped(self, previous) ==
    CASE self.tag = "MoveCursor" -> FALSE
      [] previous.tag = "InsertCharacter" /\ self.tag = "InsertCharacter" ->
            \/ self.c = LF \/ self.c = CR
            \/ (~is_whitespace(self.c) /\ is_whitespace(previous.c))
      [] OTHER -> TRUE

create_undo_point_after(self, previous) ==
    CASE self.tag = "MoveCursor" -> FALSE
      [] previous.tag = "HistoryNavigation" /\ self.tag = "HistoryNavigation" -> FALSE
      [] previous.tag = "InsertCharacter" /\ self.tag = "InsertCharacter" ->
            \/ previous.c = LF \/ previous.c = CR
            \/ (~is_whitespace(previous.c) /\ is_whitespace(self.c))
      [] previous.tag = "Backspace" /\ self.tag = "Backspace"
            /\ previous.c # NoChar /\ self.c # NoChar ->
            \/ self.c = LF \/ self.c = CR
            \/ (is_whitespace(previous.c) /\ ~is_whitespace(self.c))
      [] previous.tag = "Backspace" /\ self.tag = "Backspace" -> FALSE
      [] previous.tag = "Delete" /\ self.tag = "Delete"
            /\ previous.c # NoChar /\ self.c # NoChar ->
            \/ self.c = LF \/ self.c = CR
            \/ (is_whitespace(previous.c) /\ ~is_whitespace(self.c))
      [] previous.tag = "Delete" /\ self.tag = "Delete" -> FALSE
      [] OTHER -> TRUE

(***************************************************************************)
(* Editor (src/core_editor/editor.rs)                                      *)
(*                                                                         *)
(* Every operation takes env, the part of the outcome the editor does not  *)
(* decide: env.tie is the side LineBuffer clamps to inside a CR LF, and    *)
(* env.os_ok tells whether the OS clipboard accepts the request.           *)
(***************************************************************************)

Env(tie, os_ok) == [tie |-> tie, os_ok |-> os_ok]
Envs == {Env(t, o) : t \in {-1, 1}, o \in BOOLEAN}

Editor_default ==
    [line_buffer |-> LineBuffer_new,
     cut_buffer |-> Clipboard_new,
     system_clipboard |-> Clipboard_new,
     edit_stack |-> EditStack_new,
     last_undo_behavior |-> UB_CreateUndoPoint,
     selection_anchor |-> None]

insertion_point(e) == e.line_buffer.insertion_point
get_buffer(e) == e.line_buffer.lines

\* update_undo_state that leaves the stack alone when the edit merges
update_undo_state_stale(e, undo_behavior) ==
    IF undo_behavior.tag = "UndoRedo"
    THEN [e EXCEPT !.last_undo_behavior = UB_UndoRedo]
    ELSE IF ~create_undo_point_after(undo_behavior, e.last_undo_behavior)
    THEN [e EXCEPT !.last_undo_behavior = undo_behavior]
    ELSE [e EXCEPT !.edit_stack = EditStack_insert(e.edit_stack, e.line_buffer),
                   !.last_undo_behavior = undo_behavior]

\* update_undo_state that does not record that an Undo or Redo happened
update_undo_state_untagged(e, undo_behavior) ==
    IF undo_behavior.tag = "UndoRedo"
    THEN e
    ELSE LET popped == IF ~create_undo_point_after(undo_behavior, e.last_undo_behavior)
                       THEN EditStack_undo(e.edit_stack)
                       ELSE e.edit_stack
         IN  [e EXCEPT !.edit_stack = EditStack_insert(popped, e.line_buffer),
                       !.last_undo_behavior = undo_behavior]

\* update_undo_state that pushes at the end of the stack, whatever the index
update_undo_state_keep_future(e, undo_behavior) ==
    IF undo_behavior.tag = "UndoRedo"
    THEN [e EXCEPT !.last_undo_behavior = UB_UndoRedo]
    ELSE LET popped == IF ~create_undo_point_after(undo_behavior, e.last_undo_behavior)
                       THEN EditStack_undo(e.edit_stack)
                       ELSE e.edit_stack
         IN  [e EXCEPT !.edit_stack =
                           [internal_list |-> Append(popped.internal_list, e.line_buffer),
                            index |-> Len(popped.internal_list)],
                       !.last_undo_behavior = undo_behavior]

update_undo_state(e, undo_behavior) ==
    IF undo_behavior.tag = "UndoRedo"
    THEN [e EXCEPT !.last_undo_behavior = UB_UndoRedo]
    ELSE LET popped == IF ~create_undo_point_after(undo_behavior, e.last_undo_behavior)
                       THEN EditStack_undo(e.edit_stack)
                       ELSE e.edit_stack
         IN  [e EXCEPT !.edit_stack = EditStack_insert(popped, e.line_buffer),
                       !.last_undo_behavior = undo_behavior]

set_line_buffer(e, line_buffer, undo_behavior) ==
    update_undo_state([e EXCEPT !.line_buffer = line_buffer], undo_behavior)

set_buffer(e, buffer, undo_behavior) ==
    update_undo_state(
        [e EXCEPT !.line_buffer = LineBuffer_set_buffer(e.line_buffer, buffer)],
        undo_behavior)

reset_undo_stack(e) == [e EXCEPT !.edit_stack = EditStack_reset(e.edit_stack)]

motion_destination(e, motion) ==
    LET lb == e.line_buffer
        len == Len(lb.lines)
        current_pos == lb.insertion_point
        start_of_line == find_current_line_start(lb)
        relative_pos == current_pos - start_of_line
    IN
    CASE motion.kind = "MoveLeft" -> grapheme_left_index(lb)
      [] motion.kind = "MoveRight" -> grapheme_right_index(lb)
      [] motion.kind = "MoveWordLeft" -> word_left_index(lb)
      [] motion.kind = "MoveWordRight" -> word_right_start_index(lb)
      [] motion.kind = "MoveBigWordLeft" -> big_word_left_index(lb)
      [] motion.kind = "MoveBigWordRight" -> big_word_right_start_index(lb)
      [] motion.kind = "MoveToLineStart" -> find_current_line_start(lb)
      [] motion.kind = "MoveToLineEnd" -> find_current_line_end(lb)
      [] motion.kind = "MoveToStart" -> 0
      [] motion.kind = "MoveToEnd" -> len
      [] motion.kind = "MoveWordRightEnd" -> word_right_end_index(lb)
      [] motion.kind = "MoveBigWordRightEnd" -> big_word_right_end_index(lb)
      [] motion.kind = "MoveLineUp" ->
            IF start_of_line > 0
            THEN LET prev_line_start == find_line_start_before(lb, start_of_line)
                     prev_line_end == start_of_line
                     prev_line_len == prev_line_end - prev_line_start
                 IN  prev_line_start + Min({relative_pos, prev_line_len})
            ELSE current_pos
      [] motion.kind = "MoveLineDown" ->
            LET end_of_line == find_current_line_end(lb)
            IN  IF end_of_line < len
                THEN LET next_line_start == end_of_line + 1
                         next_line_end == find_line_end_after(lb, next_line_start)
                         next_line_len == next_line_end - next_line_start
                     IN  next_line_start + Min({relative_pos, next_line_len})
                ELSE current_pos
      [] motion.kind = "MoveUntilChar" /\ motion.forward ->
            LET index == find_char_right(lb, motion.c)
                delta == IF motion.inclusive THEN 1 ELSE 0
            IN  IF index # None THEN Min({index + delta, len}) ELSE len
      [] motion.kind = "MoveUntilChar" /\ ~motion.forward ->
            LET index == find_char_left(lb, motion.c)
            IN  IF index # None
                THEN Max({IF motion.inclusive THEN index ELSE index + 1, 0})
                ELSE 0
      [] motion.kind = "MoveToPosition" -> motion.pos

\* the slice get_buffer()[range_start..range_end] of Copy and Cut panics when
\* the range reaches past the end of the buffer
handle_motion_panics(e, motion, action) ==
    /\ action.act \in {"Copy", "Cut"}
    /\ Max({insertion_point(e), motion_destination(e, motion)}) > Len(get_buffer(e))

\* the match on the action (editor.rs 135-169), with the two ends of the range
handle_motion_action(e, action, start_idx, end_idx, env) ==
    LET range_start == IF end_idx > start_idx THEN start_idx ELSE end_idx
        range_end == IF end_idx > start_idx THEN end_idx ELSE start_idx
        content == Slice(get_buffer(e), range_start, range_end)
    IN
    CASE action.act = "MoveCursor" ->
            [e EXCEPT !.selection_anchor =
                          IF action.select
                          THEN (IF e.selection_anchor # None
                                THEN e.selection_anchor ELSE start_idx)
                          ELSE None,
                      !.line_buffer = set_insertion_point(e.line_buffer, end_idx, env.tie)]
      [] action.act = "Copy" ->
            [e EXCEPT !.cut_buffer = Clipboard_set(e.cut_buffer, content, "Normal")]
      [] action.act = "Cut" ->
            [e EXCEPT !.cut_buffer = Clipboard_set(e.cut_buffer, content, "Normal"),
                      !.line_buffer =
                          set_insertion_point(
                              clear_range(e.line_buffer, range_start, range_end, env.tie),
                              range_start, env.tie)]
      [] action.act = "Delete" ->
            [e EXCEPT !.line_buffer =
                          set_insertion_point(
                              clear_range(e.line_buffer, range_start, range_end, env.tie),
                              range_start, env.tie)]

\* handle_motion that takes big words for small words
handle_motion_big_words(e, motion, action, env) ==
    handle_motion_action(e, action, insertion_point(e),
        motion_destination(e, IF motion.kind = "MoveWordLeft"
                              THEN Motion0("MoveBigWordLeft") ELSE motion), env)

\* handle_motion whose Delete stores the removed text like Cut
handle_motion_delete_stores(e, motion, action, env) ==
    handle_motion_action(e,
        IF action.act = "Delete" THEN MotionAction("Cut", action.select) ELSE action,
        insertion_point(e), motion_destination(e, motion), env)

\* handle_motion that takes the range to run from the cursor forward only
handle_motion_forward_only(e, motion, action, env) ==
    handle_motion_action(e, action, insertion_point(e),
                         Max({insertion_point(e), motion_destination(e, motion)}), env)

\* handle_motion whose selecting cursor move anchors at the destination
handle_motion_anchor_at_end(e, motion, action, env) ==
    handle_motion_action(e, action, motion_destination(e, motion),
                         motion_destination(e, motion), env)

\* handle_motion that stores the destination of a cursor move as computed
handle_motion_raw(e, motion, action, env) ==
    IF action.act = "MoveCursor"
    THEN [e EXCEPT !.line_buffer.insertion_point = motion_destination(e, motion)]
    ELSE e

handle_motion(e, motion, action, env) ==
    handle_motion_action(e, action, insertion_point(e), motion_destination(e, motion), env)

\* Editor::cut_current_line: the same motion and action as cut_to_line_end
cut_current_line(e, env) ==
    handle_motion(e, Motion0("MoveToLineEnd"), MotionAction("Cut", FALSE), env)

undo(e) ==
    LET st == EditStack_undo(e.edit_stack)
    IN  [e EXCEPT !.edit_stack = st, !.line_buffer = EditStack_current(st)]

\* redo that moves the index and leaves the live buffer as it is
redo_keep_buffer(e) == [e EXCEPT !.edit_stack = EditStack_redo(e.edit_stack)]

redo(e) ==
    LET st == EditStack_redo(e.edit_stack)
    IN  [e EXCEPT !.edit_stack = st, !.line_buffer = EditStack_current(st)]

replace_char(e, character, env) ==
    [e EXCEPT !.line_buffer =
        insert_char(delete_right_grapheme(e.line_buffer, env.tie), character, env.tie)]

RECURSIVE DeleteRightGraphemes(_, _, _)
DeleteRightGraphemes(lb, n, tie) ==
    IF n = 0 THEN lb ELSE DeleteRightGraphemes(delete_right_grapheme(lb, tie), n - 1, tie)

replace_chars(e, n_chars, string, env) ==
    [e EXCEPT !.line_buffer =
        insert_str(DeleteRightGraphemes(e.line_buffer, n_chars, env.tie), string, env.tie)]

\* select_all that selects from the cursor to the end
select_all_from_cursor(e, env) ==
    handle_motion(e, Motion0("MoveToEnd"), MotionAction("MoveCursor", TRUE), env)

select_all(e, env) ==
    handle_motion(
        handle_motion(e, Motion0("MoveToStart"), MotionAction("MoveCursor", FALSE), env),
        Motion0("MoveToEnd"), MotionAction("MoveCursor", TRUE), env)

\* get_selection that always runs from the anchor to the cursor
get_selection_from_anchor(e) ==
    <<e.selection_anchor,
      Min({grapheme_right_index(e.line_buffer), Len(get_buffer(e))})>>

\* Some((start, end)) as <<start, end>>; call only when an anchor is set
get_selection(e) ==
    LET anchor == e.selection_anchor
        buffer_len == Len(get_buffer(e))
    IN  IF insertion_point(e) > anchor
        THEN <<anchor, Min({grapheme_right_index(e.line_buffer), buffer_len})>>
        ELSE <<insertion_point(e),
               Min({grapheme_right_index_from_pos(e.line_buffer, anchor), buffer_len})>>

\* a clipboard slot after set(content, mode); the OS slot keeps its content
\* when the OS rejects the request
SystemClipboard_set(cb, content, mode, env) ==
    IF env.os_ok THEN Clipboard_set(cb, content, mode) ELSE cb

\* what get() yields: nothing when the OS rejects the request
SystemClipboard_get(cb, env) ==
    IF env.os_ok THEN Clipboard_get(cb) ELSE Clipboard_new

\* the slice get_buffer()[start..end] of the selection commands panics when
\* start > end
selection_slice_panics(e) ==
    /\ e.selection_anchor # None
    /\ get_selection(e)[1] > get_selection(e)[2]

cut_selection_to_system(e, env) ==
    IF e.selection_anchor # None
    THEN LET sel == get_selection(e)
         IN  [e EXCEPT !.system_clipboard =
                           SystemClipboard_set(e.system_clipboard,
                               Slice(get_buffer(e), sel[1], sel[2]), "Normal", env),
                       !.line_buffer = clear_range_safe(e.line_buffer, sel[1], sel[2], env.tie),
                       !.selection_anchor = None]
    ELSE e

cut_selection_to_cut_buffer(e, env) ==
    IF e.selection_anchor # None
    THEN LET sel == get_selection(e)
         IN  [e EXCEPT !.cut_buffer =
                           Clipboard_set(e.cut_buffer,
                               Slice(get_buffer(e), sel[1], sel[2]), "Normal"),
                       !.line_buffer = clear_range_safe(e.line_buffer, sel[1], sel[2], env.tie),
                       !.selection_anchor = None]
    ELSE e

copy_selection_to_system(e, env) ==
    IF e.selection_anchor # None
    THEN LET sel == get_selection(e)
         IN  [e EXCEPT !.system_clipboard =
                           SystemClipboard_set(e.system_clipboard,
                               Slice(get_buffer(e), sel[1], sel[2]), "Normal", env)]
    ELSE e

copy_selection_to_cut_buffer(e) ==
    IF e.selection_anchor # None
    THEN LET sel == get_selection(e)
         IN  [e EXCEPT !.cut_buffer =
                           Clipboard_set(e.cut_buffer,
                               Slice(get_buffer(e), sel[1], sel[2]), "Normal")]
    ELSE e

delete_selection(e, env) ==
    IF e.selection_anchor # None
    THEN LET sel == get_selection(e)
         IN  [e EXCEPT !.line_buffer = clear_range_safe(e.line_buffer, sel[1], sel[2], env.tie),
                       !.selection_anchor = None]
    ELSE e

\* backspace that removes the selection and the grapheme left of it
backspace_selection_and_grapheme(e, env) ==
    [delete_selection(e, env) EXCEPT
        !.line_buffer = delete_left_grapheme(
                            delete_selection(e, env).line_buffer, env.tie)]

backspace(e, env) ==
    IF e.selection_anchor # None
    THEN delete_selection(e, env)
    ELSE [e EXCEPT !.line_buffer = delete_left_grapheme(e.line_buffer, env.tie)]

delete(e, env) ==
    IF e.selection_anchor # None
    THEN delete_selection(e, env)
    ELSE [e EXCEPT !.line_buffer = delete_right_grapheme(e.line_buffer, env.tie)]

Editor_insert_char(e, c, env) ==
    LET d == delete_selection(e, env)
    IN  [d EXCEPT !.line_buffer = insert_char(d.line_buffer, c, env.tie)]

Editor_insert_str(e, str, env) ==
    LET d == delete_selection(e, env)
    IN  [d EXCEPT !.line_buffer = insert_str(d.line_buffer, str, env.tie)]

Editor_insert_newline(e, env) ==
    LET d == delete_selection(e, env)
    IN  [d EXCEPT !.line_buffer = insert_newline(d.line_buffer, env.tie)]

insert_clipboard_content_before(line_buffer, clip, tie) ==
    IF clip.mode = "Normal"
    THEN insert_str(line_buffer, clip.content, tie)
    ELSE LET up == LineBuffer_move_line_up(move_to_line_start(line_buffer), tie)
             content == IF clip.content # <<>> /\ clip.content[Len(clip.content)] = LF
                        THEN clip.content ELSE Append(clip.content, LF)
         IN  insert_str(up, content, tie)

\* paste_from_system that reads the local slot
paste_from_system_local(e, env) ==
    LET d == delete_selection(e, env)
    IN  [d EXCEPT !.line_buffer =
            insert_clipboard_content_before(d.line_buffer,
                Clipboard_get(d.cut_buffer), env.tie)]

paste_from_system(e, env) ==
    LET d == delete_selection(e, env)
    IN  [d EXCEPT !.line_buffer =
            insert_clipboard_content_before(d.line_buffer,
                SystemClipboard_get(d.system_clipboard, env), env.tie)]

paste_cut_buffer(e, env) ==
    LET d == delete_selection(e, env)
    IN  [d EXCEPT !.line_buffer =
            insert_clipboard_content_before(d.line_buffer,
                Clipboard_get(d.cut_buffer), env.tie)]

(***************************************************************************)
(* Delimiter-pair matching (spec.md 4.3)                                   *)
(***************************************************************************)

\* backward scan from offset i: each right_char deepens the nesting, a
\* left_char at depth 0 is the open delimiter
RECURSIVE ScanBackward(_, _, _, _, _)
ScanBackward(lines, left_char, right_char, i, depth) ==
    IF i < 0 THEN None
    ELSE IF lines[i + 1] = right_char
         THEN ScanBackward(lines, left_char, right_char, i - 1, depth + 1)
    ELSE IF lines[i + 1] = left_char
         THEN (IF depth = 0 THEN i
               ELSE ScanBackward(lines, left_char, right_char, i - 1, depth - 1))
    ELSE ScanBackward(lines, left_char, right_char, i - 1, depth)

\* forward scan from offset i: each further left_char deepens the nesting, a
\* right_char at depth 0 is the matching close
RECURSIVE ScanForward(_, _, _, _, _)
ScanForward(lines, left_char, right_char, i, depth) ==
    IF i >= Len(lines) THEN None
    ELSE IF lines[i + 1] = left_char
         THEN ScanForward(lines, left_char, right_char, i + 1, depth + 1)
    ELSE IF lines[i + 1] = right_char
         THEN (IF depth = 0 THEN i
               ELSE ScanForward(lines, left_char, right_char, i + 1, depth - 1))
    ELSE ScanForward(lines, left_char, right_char, i + 1, depth)

\* Some((lp, rp)) as <<lp, rp>>, None as <<None, None>>
find_matching_pair(lb, left_char, right_char, cursor) ==
    LET n == Len(lb.lines)
        lp == IF left_char = right_char
              THEN FindLast(lb.lines, left_char, 0, Min({cursor + 1, n}))
              ELSE ScanBackward(lb.lines, left_char, right_char, Min({cursor, n}) - 1, 0)
        rp == IF lp = None THEN None
              ELSE IF left_char = right_char
                   THEN FindFirst(lb.lines, right_char, lp + 1, n)
              ELSE ScanForward(lb.lines, left_char, right_char, lp + 1, 0)
    IN  IF lp = None \/ rp = None THEN <<None, None>> ELSE <<lp, rp>>

\* cut_inside that takes the delimiters out with the text between them
cut_inside_with_delimiters(e, left_char, right_char, env) ==
    LET pair == find_matching_pair(e.line_buffer, left_char, right_char, insertion_point(e))
    IN  IF pair[1] # None /\ pair[1] + 1 < pair[2]
        THEN [e EXCEPT !.cut_buffer =
                           Clipboard_set(e.cut_buffer,
                               Slice(get_buffer(e), pair[1] + 1, pair[2]), "Normal"),
                       !.line_buffer =
                           set_insertion_point(
                               clear_range_safe(e.line_buffer, pair[1], pair[2] + 1, env.tie),
                               pair[1], env.tie)]
        ELSE e

\* cut_inside that takes the first quote of the line for the open marker
cut_inside_first_quote(e, left_char, right_char, env) ==
    LET lp == FindFirst(get_buffer(e), left_char, 0, Len(get_buffer(e)))
        rp == IF lp = None THEN None
              ELSE FindFirst(get_buffer(e), right_char, lp + 1, Len(get_buffer(e)))
    IN  IF left_char = right_char /\ lp # None /\ rp # None /\ lp + 1 < rp
        THEN [e EXCEPT !.cut_buffer =
                           Clipboard_set(e.cut_buffer, Slice(get_buffer(e), lp + 1, rp),
                                         "Normal"),
                       !.line_buffer =
                           set_insertion_point(
                               clear_range_safe(e.line_buffer, lp + 1, rp, env.tie),
                               lp + 1, env.tie)]
        ELSE e

\* cut_inside that sends the cursor to the start of the line when it finds
\* nothing to cut
cut_inside_lost_cursor(e, left_char, right_char, env) ==
    LET pair == find_matching_pair(e.line_buffer, left_char, right_char, insertion_point(e))
    IN  IF pair[1] # None /\ pair[1] + 1 < pair[2]
        THEN [e EXCEPT !.cut_buffer =
                           Clipboard_set(e.cut_buffer,
                               Slice(get_buffer(e), pair[1] + 1, pair[2]), "Normal"),
                       !.line_buffer =
                           set_insertion_point(
                               clear_range_safe(e.line_buffer, pair[1] + 1, pair[2], env.tie),
                               pair[1] + 1, env.tie)]
        ELSE [e EXCEPT !.line_buffer = set_insertion_point(e.line_buffer, 0, env.tie)]

cut_inside(e, left_char, right_char, env) ==
    LET old_pos == insertion_point(e)
        buffer_len == Len(get_buffer(e))
        pair == find_matching_pair(e.line_buffer, left_char, right_char, insertion_point(e))
        lp == pair[1]
        rp == pair[2]
        inside_start == lp + 1
    IN  IF lp # None /\ inside_start < rp /\ rp <= buffer_len
        THEN [e EXCEPT !.cut_buffer =
                           Clipboard_set(e.cut_buffer,
                               Slice(get_buffer(e), inside_start, rp), "Normal"),
                       !.line_buffer =
                           set_insertion_point(
                               clear_range_safe(e.line_buffer, inside_start, rp, env.tie),
                               lp + 1, env.tie)]
        ELSE [e EXCEPT !.line_buffer = set_insertion_point(e.line_buffer, old_pos, env.tie)]

\* yank_inside that leaves the cursor after the left delimiter, as a cut does
yank_inside_no_restore(e, left_char, right_char, env) ==
    LET pair == find_matching_pair(e.line_buffer, left_char, right_char, insertion_point(e))
    IN  IF pair[1] # None /\ pair[1] + 1 < pair[2]
        THEN [e EXCEPT !.cut_buffer =
                           Clipboard_set(e.cut_buffer,
                               Slice(get_buffer(e), pair[1] + 1, pair[2]), "Normal"),
                       !.line_buffer =
                           set_insertion_point(e.line_buffer, pair[1] + 1, env.tie)]
        ELSE e

yank_inside(e, left_char, right_char, env) ==
    LET old_pos == insertion_point(e)
        buffer_len == Len(get_buffer(e))
        pair == find_matching_pair(e.line_buffer, left_char, right_char, insertion_point(e))
        lp == pair[1]
        rp == pair[2]
        inside_start == lp + 1
        copied == IF lp # None /\ inside_start < rp /\ rp <= buffer_len
                  THEN [e EXCEPT !.cut_buffer =
                                     Clipboard_set(e.cut_buffer,
                                         Slice(get_buffer(e), inside_start, rp), "Normal")]
                  ELSE e
    IN  [copied EXCEPT !.line_buffer = set_insertion_point(e.line_buffer, old_pos, env.tie)]

(***************************************************************************)
(* Editor::run_edit_command                                                *)
(***************************************************************************)

\* the match on the command (editor.rs 51-105)
execute_command(e, command, env) ==
    CASE command.op = "InsertChar" -> Editor_insert_char(e, command.c, env)
      [] command.op = "InsertString" -> Editor_insert_str(e, command.str, env)
      [] command.op = "InsertNewline" -> Editor_insert_newline(e, env)
      [] command.op = "ReplaceChar" -> replace_char(e, command.c, env)
      [] command.op = "ReplaceChars" -> replace_chars(e, command.n, command.str, env)
      [] command.op = "Motion" -> handle_motion(e, command.motion, command.action, env)
      [] command.op = "Backspace" -> backspace(e, env)
      [] command.op = "Delete" -> delete(e, env)
      [] command.op = "OperateInsidePair" /\ command.pair = "CutInside" ->
            cut_inside(e, command.left_char, command.right_char, env)
      [] command.op = "OperateInsidePair" /\ command.pair = "YankInside" ->
            yank_inside(e, command.left_char, command.right_char, env)
      [] command.op = "Undo" -> undo(e)
      [] command.op = "Redo" -> redo(e)
      [] command.op = "SwapGraphemes" ->
            [e EXCEPT !.line_buffer = swap_graphemes(e.line_buffer, env.tie)]
      [] command.op = "SwapWords" ->
            [e EXCEPT !.line_buffer = swap_words(e.line_buffer, env.tie)]
      [] command.op = "UppercaseWord" ->
            [e EXCEPT !.line_buffer = uppercase_word(e.line_buffer, env.tie)]
      [] command.op = "LowercaseWord" ->
            [e EXCEPT !.line_buffer = lowercase_word(e.line_buffer, env.tie)]
      [] command.op = "SwitchcaseChar" ->
            [e EXCEPT !.line_buffer = switchcase_char(e.line_buffer, env.tie)]
      [] command.op = "CapitalizeChar" ->
            [e EXCEPT !.line_buffer = capitalize_char(e.line_buffer, env.tie)]
      [] command.op = "CutSelection" -> cut_selection_to_cut_buffer(e, env)
      [] command.op = "CopySelection" -> copy_selection_to_cut_buffer(e)
      [] command.op = "PasteCutBuffer" -> paste_cut_buffer(e, env)
      [] command.op = "SelectAll" -> select_all(e, env)
      [] command.op = "CutSelectionSystem" -> cut_selection_to_system(e, env)
      [] command.op = "CopySelectionSystem" -> copy_selection_to_system(e, env)
      [] command.op = "PasteSystem" -> paste_from_system(e, env)

\* first character of a grapheme, Option<char>
FirstChar(grapheme) == IF grapheme = <<>> THEN NoChar ELSE grapheme[1]

\* the undo behaviour of a command (editor.rs 113-126), read against the
\* snapshot the stack holds when the command has run
new_undo_behavior(e, command) ==
    LET type == edit_type(command).type
    IN  CASE type = "MoveCursor" -> UB_MoveCursor
          [] type = "EditText" /\ command.op = "InsertChar" ->
                UndoBehavior("InsertCharacter", command.c)
          [] type = "EditText" /\ command.op = "Delete" ->
                UndoBehavior("Delete",
                    FirstChar(grapheme_right(EditStack_current(e.edit_stack))))
          [] type = "EditText" /\ command.op = "Backspace" ->
                UndoBehavior("Backspace",
                    FirstChar(grapheme_left(EditStack_current(e.edit_stack))))
          [] type = "UndoRedo" -> UB_UndoRedo
          [] OTHER -> UB_CreateUndoPoint

run_edit_command_panics(e, command) ==
    \/ command.op = "Motion" /\ handle_motion_panics(e, command.motion, command.action)
    \/ command.op \in {"CutSelection", "CopySelection", "CutSelectionSystem",
                       "CopySelectionSystem"} /\ selection_slice_panics(e)

\* the anchor handling of a run_edit_command that clears it after a text
\* edit only
run_edit_command_anchor_edits(e, command) ==
    IF edit_type(command).type = "EditText"
    THEN [e EXCEPT !.selection_anchor = None]
    ELSE e

\* editor.rs 107-110
run_edit_command_anchor(e, command) ==
    IF ~(edit_type(command).type = "MoveCursor" /\ edit_type(command).select)
    THEN [e EXCEPT !.selection_anchor = None]
    ELSE e

\* editor.rs 112-128
run_edit_command_undo_state(e, command) ==
    update_undo_state(e, new_undo_behavior(e, command))

run_edit_command(e, command, env) ==
    run_edit_command_undo_state(
        run_edit_command_anchor(execute_command(e, command, env), command),
        command)

\* Editor::edit_buffer: the undo state is updated before func runs
edit_buffer(e, func, undo_behavior, env) ==
    LET pushed == update_undo_state(e, undo_behavior)
    IN  [pushed EXCEPT !.line_buffer =
            CASE func.op = "insert_str" -> insert_str(pushed.line_buffer, func.str, env.tie)
              [] func.op = "clear" -> LineBuffer_new
              [] func.op = "set_insertion_point" ->
                    set_insertion_point(pushed.line_buffer, func.n, env.tie)]

(***************************************************************************)
(* State                                                                   *)
(***************************************************************************)

\* ---------------------------------------------------------------------
\* KittyProtocolGuard (terminal_extensions/kitty.rs)
\* ---------------------------------------------------------------------

\* #[derive(Default)]: both fields false
KittyProtocolGuard_default == [enabled |-> FALSE, active |-> FALSE]

\* the result of a guard method: the guard and what it wrote to stdout
GuardResult(self, out) == [guard |-> self, out |-> out]

\* set(enable); available is what kitty_protocol_available() answers
KittyProtocolGuard_set(self, enable, available) ==
    GuardResult([self EXCEPT !.enabled = enable /\ available], <<>>)

KittyProtocolGuard_enter(self) ==
    IF self.enabled /\ ~self.active
    THEN GuardResult([self EXCEPT !.active = TRUE], <<"push">>)
    ELSE GuardResult(self, <<>>)

KittyProtocolGuard_exit(self) ==
    IF self.active
    THEN GuardResult([self EXCEPT !.active = FALSE], <<"pop">>)
    ELSE GuardResult(self, <<>>)

\* drop that cleans up only while the protocol is still enabled
KittyProtocolGuard_drop_enabled(self) ==
    IF self.enabled /\ self.active
    THEN GuardResult(self, <<"pop">>)
    ELSE GuardResult(self, <<>>)

KittyProtocolGuard_drop(self) ==
    IF self.active
    THEN GuardResult(self, <<"pop">>)
    ELSE GuardResult(self, <<>>)

\* ---------------------------------------------------------------------
\* ReedlineRawEvent (enums.rs)
\* ---------------------------------------------------------------------

KeyEventKinds == {"Press", "Repeat", "Release"}

\* Event::Key(KeyEvent { code, modifiers, kind, state })
KeyEvent(code, modifiers, kind, state) ==
    [type |-> "Key", code |-> code, modifiers |-> modifiers,
     kind |-> kind, state |-> state]

KeyEvents ==
    {KeyEvent(code, modifiers, kind, state) :
        code \in {"a", "Enter"}, modifiers \in {"NONE", "SHIFT"},
        kind \in KeyEventKinds, state \in {"NONE", "CAPS_LOCK"}}

\* the events that are no key events
OtherEvents ==
    {[type |-> "FocusGained"], [type |-> "FocusLost"],
     [type |-> "Paste", text |-> <<"a">>],
     [type |-> "Resize", columns |-> 2, rows |-> 1]}

Events == KeyEvents \cup OtherEvents

\* the tuple struct ReedlineRawEvent(Event)
ReedlineRawEvent(event) == <<event>>

Ok(v) == [tag |-> "Ok", v |-> v]
Err == [tag |-> "Err"]

\* try_from that wraps a Repeat as it came
try_from_keeps_repeat(event) ==
    IF event.type = "Key" /\ event.kind = "Release" THEN Err
    ELSE Ok(ReedlineRawEvent(event))

\* TryFrom<Event> for ReedlineRawEvent
try_from(event) ==
    IF event.type = "Key" /\ event.kind = "Release" THEN Err
    ELSE IF event.type = "Key" /\ event.kind = "Repeat"
         THEN Ok(ReedlineRawEvent(KeyEvent(event.code, event.modifiers,
                                           "Press", event.state)))
    ELSE Ok(ReedlineRawEvent(event))

\* From<ReedlineRawEvent> for Event: event.0
Event_from(event) == event[1]

VARIABLES
    guard,     \* the KittyProtocolGuard
    written,   \* the keyboard-enhancement commands written to stdout so far
    dropped,   \* the guard was dropped
    conv,      \* the last terminal event, its conversion and the event taken
               \* back out of it
    ed,        \* the Editor
    panicked,  \* a command panicked: the editor is gone
    last_cmd,  \* the call that produced this state: [api, cmd]
    steps,     \* number of calls made so far
    phase,     \* position in a session: "edit", then "undo", "redo",
               \* "edit_after_undo", "edit_after_redo", "done", or "cut", "pasted";
               \* "os_rejected" when the OS clipboard refused the last call
    undone,    \* Undo commands of the undo phase that no Redo has matched yet
    fwd,       \* per undo-stack position, the text the last forward call left there
    saved,     \* the buffer text when the session last changed phase
    removed,   \* the text the last call took out of the buffer
    run_start  \* the cursor offset before the first of the selecting motions
               \* running now, when that one found no anchor set (else None)

vars == <<ed, panicked, last_cmd, steps, phase, undone, fwd, saved, removed, run_start,
          guard, written, dropped, conv>>

\* bounds of the model
MaxSteps == 2
MaxUndoSteps == 4
MaxEdits == 3
MaxPos == 4
MaxSelectSteps == 2
MaxPairSteps == 4
MaxSelectionSteps == 3
MaxMotionSteps == 2
MaxClipboardSteps == 3
MaxSubmitSteps == 2
MaxHostSteps == 5
MaxReplaceSteps == 4
MaxGuardCalls == 8
MaxEvents == 4

Call(api, cmd) == [api |-> api, cmd |-> cmd]

\* the call is run_edit_command with a cursor motion that selects
IsSelectingMotion(call) ==
    /\ call.api = "run_edit_command"
    /\ call.cmd.op = "Motion"
    /\ call.cmd.action.act = "MoveCursor"
    /\ call.cmd.action.select

\* the texts the editor is loaded with
InitBuffers ==
    {<<>>,
     <<"a", SP, "b">>,
     <<"a", LF, "b">>,
     <<"a", CR, LF, "b">>,
     <<"a", "b", CR, LF>>,
     <<CR, LF, "a", LF>>,
     <<"(", "a", ")">>}

\* the line buffers over a set of texts: the cursor on any boundary
LineBuffersOf(buffers) ==
    UNION {{[lines |-> b, insertion_point |-> i] :
               i \in {j \in 0..Len(b) : IsBoundary(b, j)}} : b \in buffers}

InitLineBuffers == LineBuffersOf(InitBuffers)

SetUndoBehaviors == {UB_CreateUndoPoint, UB_HistoryNavigation}

MotionActions ==
    {MotionAction("MoveCursor", FALSE), MotionAction("MoveCursor", TRUE),
     MotionAction("Copy", FALSE), MotionAction("Cut", FALSE), MotionAction("Delete", FALSE)}

Motions ==
    {Motion0(k) : k \in MotionKinds \ {"MoveUntilChar", "MoveToPosition"}}
    \cup {MotionKind("MoveUntilChar", c, i, f, 0) :
             c \in {"a"}, i \in BOOLEAN, f \in BOOLEAN}
    \cup {MotionKind("MoveToPosition", NoChar, FALSE, FALSE, p) : p \in 0..MaxPos}

MotionCommands == {Motion(m, a) : m \in Motions, a \in MotionActions}

SimpleCommands ==
    {Command0(op) : op \in {"InsertNewline", "Backspace", "Delete", "Undo", "Redo",
                            "SwapGraphemes", "SwapWords", "UppercaseWord",
                            "LowercaseWord", "SwitchcaseChar", "CapitalizeChar",
                            "CutSelection", "CopySelection", "PasteCutBuffer",
                            "SelectAll", "CutSelectionSystem", "CopySelectionSystem",
                            "PasteSystem"}}

Commands ==
    MotionCommands \cup SimpleCommands
    \cup {InsertChar(c) : c \in {"a", SP, LF, CR}}
    \cup {InsertString(<<CR>>), InsertString(<<"a", "b">>)}
    \cup {ReplaceChar("b"), ReplaceChars(2, <<"B">>)}
    \cup {OperateInsidePair(d[1], d[2], p) :
             d \in {<<"(", ")">>, <<"'", "'">>}, p \in {"CutInside", "YankInside"}}

\* the closures handed to edit_buffer
Funcs ==
    {[op |-> "insert_str", str |-> <<"b">>, n |-> 0],
     [op |-> "clear", str |-> <<>>, n |-> 0],
     [op |-> "set_insertion_point", str |-> <<>>, n |-> 0]}

\* the outcomes a command can see: the OS clipboard matters to the system
\* clipboard commands only
EnvsOf(cmd) ==
    IF cmd.op \in {"CutSelectionSystem", "CopySelectionSystem", "PasteSystem"}
    THEN Envs ELSE {Env(t, TRUE) : t \in {-1, 1}}

\* fwd after a call that left the editor in state e
Record(f, e) ==
    IF e.last_undo_behavior.tag = "UndoRedo" THEN f
    ELSE [i \in 1..(e.edit_stack.index + 1) |->
             IF i <= e.edit_stack.index /\ i <= Len(f) THEN f[i] ELSE get_buffer(e)]

\* what a call that took the text from e to f removed: the run missing
\* after the longest prefix the two texts share
Removed(e, f) ==
    LET n == Len(get_buffer(e)) - Len(get_buffer(f))
        p == Max({k \in 0..Len(get_buffer(f)) :
                    SubSeq(get_buffer(e), 1, k) = SubSeq(get_buffer(f), 1, k)})
    IN  IF n > 0 THEN Slice(get_buffer(e), p, p + n) ELSE <<>>

Init ==
    /\ ed = Editor_default
    /\ panicked = FALSE
    /\ last_cmd = Call("new", Command0("None"))
    /\ steps = 0
    /\ phase = "edit"
    /\ undone = 0
    /\ fwd = <<<<>>>>
    /\ saved = <<>>
    /\ removed = <<>>
    /\ run_start = None
    /\ guard = KittyProtocolGuard_default
    /\ written = <<>>
    /\ dropped = FALSE
    /\ conv = [stage |-> "none"]

\* a call of api that takes the editor to e
Step(api, cmd, e) ==
    /\ ed' = e
    /\ last_cmd' = Call(api, cmd)
    /\ steps' = steps + 1
    /\ fwd' = Record(fwd, e)
    /\ removed' = Removed(ed, e)
    /\ run_start' = IF ~IsSelectingMotion(Call(api, cmd)) THEN None
                    ELSE IF IsSelectingMotion(last_cmd) THEN run_start
                    ELSE IF ed.selection_anchor = None THEN insertion_point(ed)
                    ELSE None
    /\ UNCHANGED <<panicked, guard, written, dropped, conv>>

Panic(api, cmd) ==
    /\ panicked' = TRUE
    /\ last_cmd' = Call(api, cmd)
    /\ steps' = steps + 1
    /\ removed' = <<>>
    /\ UNCHANGED <<ed, fwd, run_start, guard, written, dropped, conv>>

Stay == UNCHANGED <<phase, undone, saved>>

\* run_edit_command(cmd) on the live editor
Run(cmd) ==
    IF run_edit_command_panics(ed, cmd)
    THEN Panic("run_edit_command", cmd)
    ELSE \E env \in EnvsOf(cmd) :
            Step("run_edit_command", cmd, run_edit_command(ed, cmd, env))

Live(bound) == ~panicked /\ phase = "edit" /\ steps < bound

SetBuffer ==
    /\ Live(MaxSteps)
    /\ \E b \in InitBuffers, ub \in SetUndoBehaviors :
          Step("set_buffer", Command0("None"), set_buffer(ed, b, ub))
    /\ Stay

SetLineBuffer ==
    /\ Live(MaxSteps)
    /\ \E lb \in InitLineBuffers, ub \in SetUndoBehaviors :
          Step("set_line_buffer", Command0("None"), set_line_buffer(ed, lb, ub))
    /\ Stay

EditBuffer ==
    /\ Live(MaxSteps)
    /\ \E func \in Funcs, ub \in SetUndoBehaviors \cup {UB_MoveCursor}, tie \in {-1, 1} :
          Step("edit_buffer", Command0("None"), edit_buffer(ed, func, ub, Env(tie, TRUE)))
    /\ Stay

ResetUndoStack ==
    /\ Live(MaxSteps)
    /\ Step("reset_undo_stack", Command0("None"), reset_undo_stack(ed))
    /\ Stay

RunEditCommand ==
    /\ Live(MaxSteps)
    /\ \E cmd \in Commands : Run(cmd)
    /\ Stay

Next == SetBuffer \/ SetLineBuffer \/ EditBuffer \/ ResetUndoStack \/ RunEditCommand

Spec == Init /\ [][Next]_vars

(***************************************************************************)
(* Typing sessions: a line is loaded, then typed and deleted in, the       *)
(* cursor moved, edits undone and redone                                   *)
(***************************************************************************)

TypingBuffers ==
    {<<>>, <<"a", SP, SP>>, <<"a", SP, "b">>, <<"a", LF, "b">>, <<"a", CR, LF>>,
     <<SP, "a", CR, LF, "b">>}

TypingLineBuffers == LineBuffersOf(TypingBuffers)

TypingCommands ==
    {InsertChar(c) : c \in {"a", SP, LF, CR}}
    \cup {Command0(op) : op \in {"Backspace", "Delete", "Undo", "Redo"}}
    \cup {Motion(Motion0(k), MotionAction("MoveCursor", sel)) :
             k \in {"MoveLeft", "MoveRight"}, sel \in BOOLEAN}

LoadLine ==
    /\ Live(MaxUndoSteps)
    /\ steps = 0
    /\ \E lb \in TypingLineBuffers :
          Step("set_line_buffer", Command0("None"),
               set_line_buffer(ed, lb, UB_CreateUndoPoint))
    /\ Stay

Type ==
    /\ Live(MaxUndoSteps)
    /\ \E cmd \in TypingCommands : Run(cmd)
    /\ Stay

NextUndo == LoadLine \/ Type

SpecUndo == Init /\ [][NextUndo]_vars

(***************************************************************************)
(* Undo/redo sessions: commands are run, then undone, possibly down to the *)
(* oldest state and redone as many times; then the text is edited again    *)
(* and one more Undo or Redo issued                                        *)
(***************************************************************************)

EditingCommands ==
    TypingCommands
    \cup {InsertString(<<"b", SP>>), Command0("PasteCutBuffer"),
          Motion(Motion0("MoveWordLeft"), MotionAction("Cut", FALSE))}

Forward ==
    /\ Live(MaxEdits)
    /\ \E cmd \in EditingCommands : Run(cmd)
    /\ Stay

UndoDown ==
    /\ ~panicked
    /\ phase \in {"edit", "undo"}
    /\ ed.edit_stack.index > 0
    /\ Run(Command0("Undo"))
    /\ phase' = "undo"
    /\ undone' = undone + 1
    /\ saved' = IF phase = "edit" THEN get_buffer(ed) ELSE saved

RedoUp ==
    /\ ~panicked
    /\ \/ phase = "undo" /\ ed.edit_stack.index = 0
       \/ phase = "redo"
    /\ undone > 0
    /\ Run(Command0("Redo"))
    /\ phase' = "redo"
    /\ undone' = undone - 1
    /\ saved' = saved

Resume ==
    /\ ~panicked
    /\ phase \in {"undo", "redo"}
    /\ \E cmd \in {c \in EditingCommands : edit_type(c).type = "EditText"} : Run(cmd)
    /\ phase' = IF phase = "undo" THEN "edit_after_undo" ELSE "edit_after_redo"
    /\ saved' = get_buffer(ed)
    /\ undone' = undone

After ==
    /\ ~panicked
    /\ phase \in {"edit_after_undo", "edit_after_redo"}
    /\ \E op \in {"Undo", "Redo"} : Run(Command0(op))
    /\ phase' = "done"
    /\ UNCHANGED <<undone, saved>>

NextUndoRedo == Forward \/ UndoDown \/ RedoUp \/ Resume \/ After

SpecUndoRedo == Init /\ [][NextUndoRedo]_vars

(***************************************************************************)
(* Host sessions: a line is loaded and edited; then the host edits it      *)
(* through edit_buffer, or walks the history with set_buffer, or the last  *)
(* change is undone, the cursor moved and the change redone                *)
(***************************************************************************)

LiveHost == ~panicked /\ steps > 0 /\ steps < MaxHostSteps

NavigationBuffers == {<<>>, <<"B">>, <<"a", SP, "B">>}

CursorMoves ==
    {Motion(Motion0(k), MotionAction("MoveCursor", sel)) :
        k \in {"MoveLeft", "MoveToEnd"}, sel \in BOOLEAN}

\* edit_buffer with a func that changes the text
EditLine ==
    /\ LiveHost
    /\ phase = "edit"
    /\ \E func \in Funcs, ub \in SetUndoBehaviors \cup {UB_MoveCursor}, tie \in {-1, 1} :
          /\ get_buffer(edit_buffer(ed, func, ub, Env(tie, TRUE))) # get_buffer(ed)
          /\ Step("edit_buffer", Command0("None"), edit_buffer(ed, func, ub, Env(tie, TRUE)))
    /\ phase' = "edited"
    /\ saved' = get_buffer(ed)
    /\ undone' = undone

\* set_buffer tagged HistoryNavigation; undone counts the run
Navigate ==
    /\ LiveHost
    /\ phase \in {"edit", "navigating"}
    /\ \E b \in NavigationBuffers :
          Step("set_buffer", Command0("None"), set_buffer(ed, b, UB_HistoryNavigation))
    /\ phase' = "navigating"
    /\ saved' = IF phase = "edit" THEN get_buffer(ed) ELSE saved
    /\ undone' = undone + 1

UndoLast ==
    /\ LiveHost
    /\ phase \in {"edit", "edited", "navigating"}
    /\ ed.edit_stack.index > 0
    /\ Run(Command0("Undo"))
    /\ phase' = CASE phase = "edit" -> "undone"
                  [] phase = "edited" -> "edit_undone"
                  [] phase = "navigating" -> "navigation_undone"
    /\ saved' = IF phase = "edit" THEN get_buffer(ed) ELSE saved
    /\ undone' = undone

\* a cursor move after the Undo; undone counts the moves
MoveAfterUndo ==
    /\ LiveHost
    /\ phase = "undone"
    /\ \E cmd \in CursorMoves : Run(cmd)
    /\ undone' = undone + 1
    /\ UNCHANGED <<phase, saved>>

RedoLast ==
    /\ LiveHost
    /\ phase \in {"undone", "edit_undone"}
    /\ Run(Command0("Redo"))
    /\ phase' = IF phase = "undone" THEN "redone" ELSE "edit_redone"
    /\ UNCHANGED <<undone, saved>>

NextHost ==
    LoadLine \/ Forward \/ EditLine \/ Navigate \/ UndoLast \/ MoveAfterUndo
    \/ RedoLast

SpecHost == Init /\ [][NextHost]_vars

(***************************************************************************)
(* Cut and paste sessions: a line is loaded, a selection possibly made,    *)
(* a range cut into the local slot and pasted back at once                 *)
(***************************************************************************)

CutCommands ==
    {Motion(m, MotionAction("Cut", FALSE)) : m \in Motions}
    \cup {Command0("CutSelection")}

Load ==
    /\ Live(MaxSelectSteps)
    /\ steps = 0
    /\ \E lb \in InitLineBuffers :
          Step("set_line_buffer", Command0("None"),
               set_line_buffer(ed, lb, UB_CreateUndoPoint))
    /\ Stay

Select ==
    /\ Live(MaxSelectSteps)
    /\ steps > 0
    /\ \E m \in Motions : Run(Motion(m, MotionAction("MoveCursor", TRUE)))
    /\ Stay

Cut ==
    /\ ~panicked
    /\ phase = "edit"
    /\ steps > 0
    /\ \E cmd \in CutCommands :
          /\ cmd.op = "CutSelection" => ed.selection_anchor # None
          /\ Run(cmd)
    /\ phase' = "cut"
    /\ saved' = get_buffer(ed)
    /\ undone' = undone

Paste ==
    /\ ~panicked
    /\ phase = "cut"
    /\ Run(Command0("PasteCutBuffer"))
    /\ phase' = "pasted"
    /\ UNCHANGED <<undone, saved>>

NextCutPaste == Load \/ Select \/ Cut \/ Paste

SpecCutPaste == Init /\ [][NextCutPaste]_vars

(***************************************************************************)
(* Delimiter-pair sessions: a line with brackets or quotes is loaded, the  *)
(* cursor moved, and the text inside a pair cut or yanked, by the call     *)
(* itself or through OperateInsidePair                                     *)
(***************************************************************************)

NestedText == <<"a", "(", "b", "(", "a", ")", "b", ")", "a">>

\* "foo(bar(baz)qux)quux", and what the two cuts of the scenario leave of it
FooText ==
    <<"f", "o", "o", "(", "b", "a", "r", "(", "b", "a", "z", ")",
      "q", "u", "x", ")", "q", "u", "u", "x">>
FooTextInnerCut ==
    <<"f", "o", "o", "(", "b", "a", "r", "(", ")",
      "q", "u", "x", ")", "q", "u", "u", "x">>
FooTextOuterCut == <<"f", "o", "o", "(", ")", "q", "u", "u", "x">>

PairBuffers ==
    {<<>>,
     <<"a", SP, "b">>,
     <<"(", ")">>,
     <<"a", "(", ")">>,
     <<"'", "'">>,
     <<"'", "a", "'", "b", "'">>,
     <<"(", "a", "(", "b", ")">>,
     <<"(", "a", ")", "b", ")">>,
     <<"(", CR, LF, ")">>,
     NestedText,
     FooText}

PairLineBuffers == LineBuffersOf(PairBuffers)

Delimiters == {<<"(", ")">>, <<"'", "'">>}

LivePair == ~panicked /\ steps < MaxPairSteps

LoadPair ==
    /\ LivePair
    /\ steps = 0
    /\ \E lb \in PairLineBuffers :
          Step("set_line_buffer", Command0("None"),
               set_line_buffer(ed, lb, UB_CreateUndoPoint))
    /\ Stay

MoveTo ==
    /\ LivePair
    /\ steps > 0
    /\ \E p \in 0..MaxPos :
          Run(Motion(MotionKind("MoveToPosition", NoChar, FALSE, FALSE, p),
                     MotionAction("MoveCursor", FALSE)))
    /\ Stay

CutInside ==
    /\ LivePair
    /\ steps > 0
    /\ \E d \in Delimiters, tie \in {-1, 1} :
          Step("cut_inside", OperateInsidePair(d[1], d[2], "CutInside"),
               cut_inside(ed, d[1], d[2], Env(tie, TRUE)))
    /\ Stay

YankInside ==
    /\ LivePair
    /\ steps > 0
    /\ \E d \in Delimiters, tie \in {-1, 1} :
          Step("yank_inside", OperateInsidePair(d[1], d[2], "YankInside"),
               yank_inside(ed, d[1], d[2], Env(tie, TRUE)))
    /\ Stay

OperatePair ==
    /\ LivePair
    /\ steps > 0
    /\ \E d \in Delimiters, p \in {"CutInside", "YankInside"} :
          Run(OperateInsidePair(d[1], d[2], p))
    /\ Stay

NextPair == LoadPair \/ MoveTo \/ CutInside \/ YankInside \/ OperatePair

SpecPair == Init /\ [][NextPair]_vars

(***************************************************************************)
(* Quote sessions: a line with quotes is loaded with the cursor anywhere   *)
(* and the text inside a pair cut or yanked                                *)
(***************************************************************************)

\* "a'b'a" stands for foo"bar"baz
QuoteBuffers ==
    {<<"a", "'", "b", "'", "a">>,
     <<"'", "a", "'", "b", "'">>,
     <<"a", "b", "'", "a", SP, "b", "'">>,
     <<"a", "'", "b">>,
     <<"'", "'">>,
     <<"a", SP, "b">>}

LoadQuote ==
    /\ LivePair
    /\ steps = 0
    /\ \E lb \in LineBuffersOf(QuoteBuffers) :
          Step("set_line_buffer", Command0("None"),
               set_line_buffer(ed, lb, UB_CreateUndoPoint))
    /\ Stay

NextQuote == LoadQuote \/ CutInside \/ YankInside \/ OperatePair

SpecQuote == Init /\ [][NextQuote]_vars

(***************************************************************************)
(* Selection sessions: a line is loaded, then the cursor moved with and    *)
(* without selecting, everything selected, selections and ranges cut and   *)
(* copied, other commands run, the text replaced by the host               *)
(***************************************************************************)

SelectionBuffers ==
    {<<>>,
     <<"a", SP, "b">>,
     <<"a", LF, "b">>,
     <<"a", CR, LF, "b">>,
     <<"a", "b", CR, LF>>}

SelectionLineBuffers == LineBuffersOf(SelectionBuffers)

SelectingMotions ==
    {Motion(m, MotionAction("MoveCursor", TRUE)) :
        m \in {Motion0(k) : k \in {"MoveLeft", "MoveRight", "MoveWordLeft", "MoveToStart",
                                   "MoveToEnd", "MoveLineUp", "MoveLineDown"}}
              \cup {MotionKind("MoveToPosition", NoChar, FALSE, FALSE, p) : p \in 0..MaxPos}}

CutCopyCommands ==
    {Command0(op) : op \in {"CutSelection", "CopySelection", "CutSelectionSystem",
                            "CopySelectionSystem"}}
    \cup {Motion(Motion0("MoveWordLeft"), MotionAction("Cut", FALSE)),
          Motion(Motion0("MoveToLineEnd"), MotionAction("Copy", FALSE)),
          OperateInsidePair("(", ")", "YankInside")}

OtherCommands ==
    {InsertChar("a"), InsertString(<<"a", "b">>), ReplaceChar("b")}
    \cup {Command0(op) : op \in {"InsertNewline", "Backspace", "Delete", "Undo", "Redo",
                                 "PasteCutBuffer", "PasteSystem", "SwapGraphemes",
                                 "UppercaseWord"}}
    \cup {Motion(Motion0(k), MotionAction("MoveCursor", FALSE)) :
             k \in {"MoveLeft", "MoveToEnd"}}
    \cup {Motion(Motion0("MoveWordLeft"), MotionAction("Delete", FALSE)),
          OperateInsidePair("(", ")", "CutInside")}

\* run_edit_command(cmd) on the live editor, the answer of the OS clipboard
\* noted
RunNoted(cmd) ==
    /\ IF run_edit_command_panics(ed, cmd)
       THEN Panic("run_edit_command", cmd) /\ phase' = "edit"
       ELSE \E env \in EnvsOf(cmd) :
               /\ Step("run_edit_command", cmd, run_edit_command(ed, cmd, env))
               /\ phase' = IF env.os_ok THEN "edit" ELSE "os_rejected"
    /\ UNCHANGED <<undone, saved>>

LiveSelection == ~panicked /\ steps < MaxSelectionSteps

LoadText ==
    /\ LiveSelection
    /\ steps = 0
    /\ \E lb \in SelectionLineBuffers :
          Step("set_line_buffer", Command0("None"),
               set_line_buffer(ed, lb, UB_CreateUndoPoint))
    /\ Stay

SelectMotion ==
    /\ LiveSelection
    /\ steps > 0
    /\ \E cmd \in SelectingMotions : RunNoted(cmd)

SelectAll ==
    /\ LiveSelection
    /\ steps > 0
    /\ RunNoted(Command0("SelectAll"))

CutCopy ==
    /\ LiveSelection
    /\ steps > 0
    /\ \E cmd \in CutCopyCommands : RunNoted(cmd)

CutCurrentLine ==
    /\ LiveSelection
    /\ steps > 0
    /\ \E tie \in {-1, 1} :
          Step("cut_current_line", Command0("None"), cut_current_line(ed, Env(tie, TRUE)))
    /\ phase' = "edit"
    /\ UNCHANGED <<undone, saved>>

OtherCommand ==
    /\ LiveSelection
    /\ steps > 0
    /\ \E cmd \in OtherCommands : RunNoted(cmd)

SetText ==
    /\ LiveSelection
    /\ steps > 0
    /\ \E b \in {<<>>, <<"b">>} :
          Step("set_buffer", Command0("None"), set_buffer(ed, b, UB_CreateUndoPoint))
    /\ phase' = "edit"
    /\ UNCHANGED <<undone, saved>>

NextSelection ==
    LoadText \/ SelectMotion \/ SelectAll \/ CutCopy \/ CutCurrentLine
    \/ OtherCommand \/ SetText

SpecSelection == Init /\ [][NextSelection]_vars

(***************************************************************************)
(* Clipboard sessions: a line is loaded, a slot written, text selected,    *)
(* stored, pasted and edited, the answer of the OS clipboard noted         *)
(***************************************************************************)

ClipboardBuffers ==
    {<<>>,
     <<"a", SP, "b">>,
     <<"a", LF, "b">>,
     <<"a", CR, LF, "b">>}

ClipboardLineBuffers == LineBuffersOf(ClipboardBuffers)

\* what a slot can be written with
Clips ==
    {[content |-> c, mode |-> m] :
        c \in {<<"B">>, <<"B", LF>>}, m \in {"Normal", "Lines"}}

StoreCommands ==
    {Command0(op) : op \in {"CutSelection", "CopySelection", "CutSelectionSystem",
                            "CopySelectionSystem"}}
    \cup {Motion(Motion0(k), MotionAction(a, FALSE)) :
             k \in {"MoveWordLeft", "MoveToLineEnd"}, a \in {"Cut", "Copy"}}
    \cup {OperateInsidePair("(", ")", p) : p \in {"CutInside", "YankInside"}}

PasteCommands == {Command0("PasteCutBuffer"), Command0("PasteSystem")}

PlainCommands ==
    {InsertChar("a"), InsertString(<<"a", "b">>), ReplaceChar("b"),
     ReplaceChars(2, <<"B">>)}
    \cup {Command0(op) : op \in {"InsertNewline", "Backspace", "Delete", "Undo", "Redo",
                                 "SwapGraphemes", "SwapWords", "UppercaseWord",
                                 "LowercaseWord", "SwitchcaseChar", "CapitalizeChar",
                                 "SelectAll"}}
    \cup {Motion(Motion0(k), MotionAction("MoveCursor", sel)) :
             k \in {"MoveLeft", "MoveToEnd"}, sel \in BOOLEAN}
    \cup {Motion(Motion0(k), MotionAction("Delete", FALSE)) :
             k \in {"MoveWordLeft", "MoveToLineEnd"}}

LiveClipboard == ~panicked /\ steps < MaxClipboardSteps

LoadClipboardLine ==
    /\ LiveClipboard
    /\ steps = 0
    /\ \E lb \in ClipboardLineBuffers :
          Step("set_line_buffer", Command0("None"),
               set_line_buffer(ed, lb, UB_CreateUndoPoint))
    /\ Stay

\* Clipboard::set on the local slot
SetLocalSlot ==
    /\ LiveClipboard
    /\ steps > 0
    /\ \E clip \in Clips :
          Step("Clipboard::set", Command0("None"),
               [ed EXCEPT !.cut_buffer = Clipboard_set(ed.cut_buffer, clip.content, clip.mode)])
    /\ Stay

\* Clipboard::set on the system slot, accepted by the OS
SetSystemSlot ==
    /\ LiveClipboard
    /\ steps > 0
    /\ \E clip \in Clips :
          Step("Clipboard::set", Command0("None"),
               [ed EXCEPT !.system_clipboard =
                   SystemClipboard_set(ed.system_clipboard, clip.content, clip.mode,
                                       Env(1, TRUE))])
    /\ Stay

Store ==
    /\ LiveClipboard
    /\ steps > 0
    /\ \E cmd \in StoreCommands : RunNoted(cmd)

PasteSlot ==
    /\ LiveClipboard
    /\ steps > 0
    /\ \E cmd \in PasteCommands : RunNoted(cmd)

PlainCommand ==
    /\ LiveClipboard
    /\ steps > 0
    /\ \E cmd \in PlainCommands : RunNoted(cmd)

NextClipboard ==
    LoadClipboardLine \/ SetLocalSlot \/ SetSystemSlot \/ Store \/ PasteSlot
    \/ PlainCommand

SpecClipboard == Init /\ [][NextClipboard]_vars

(***************************************************************************)
(* Replacement sessions: a line is loaded, text selected, a slot written,  *)
(* and commands that act on the selection run                              *)
(***************************************************************************)

SelectionCommands ==
    {InsertChar("a"), InsertString(<<"a", "b">>)}
    \cup {Command0(op) : op \in {"InsertNewline", "Backspace", "Delete", "PasteCutBuffer",
                                 "PasteSystem", "CopySelection", "CopySelectionSystem",
                                 "SelectAll"}}

OnSelection ==
    /\ ~panicked
    /\ steps > 0
    /\ steps < MaxReplaceSteps
    /\ \E cmd \in SelectionCommands : RunNoted(cmd)

NextReplace ==
    LoadClipboardLine \/ Select \/ SetLocalSlot \/ SetSystemSlot \/ OnSelection

SpecReplace == Init /\ [][NextReplace]_vars

(***************************************************************************)
(* Submissions: a line is loaded and a command of any variant submitted    *)
(***************************************************************************)

\* commands of every variant of EditCommand
SubmittedCommands == Commands \cup {Command0("Clear"), Command0("ClearToLineEnd")}

LiveSubmit == ~panicked /\ phase # "undefined" /\ steps < MaxSubmitSteps

LoadSubmitLine ==
    /\ LiveSubmit
    /\ steps = 0
    /\ \E lb \in ClipboardLineBuffers :
          Step("set_line_buffer", Command0("None"),
               set_line_buffer(ed, lb, UB_CreateUndoPoint))
    /\ Stay

\* run_edit_command(cmd) for a command of any variant: where the match has
\* no arm for the variant, no effect is defined
Submit ==
    /\ LiveSubmit
    /\ steps > 0
    /\ \E cmd \in SubmittedCommands :
          IF cmd.op \in run_edit_command_arms
          THEN RunNoted(cmd)
          ELSE /\ phase' = "undefined"
               /\ last_cmd' = Call("run_edit_command", cmd)
               /\ steps' = steps + 1
               /\ UNCHANGED <<ed, panicked, undone, fwd, saved, removed, run_start,
                              guard, written, dropped, conv>>

NextSubmit == LoadSubmitLine \/ Submit

SpecSubmit == Init /\ [][NextSubmit]_vars

(***************************************************************************)
(* Motion sessions: a line is loaded and motions of every kind applied     *)
(* with every action                                                       *)
(***************************************************************************)

MotionBuffers ==
    {<<>>,
     <<"a", SP, "b">>,
     <<"b", SP, "a", "b">>,
     <<"a", "b", LF, "a">>,
     <<"a", LF, "a", "b">>,
     <<"a", CR, LF, "a", "b">>,
     <<"a", "b", CR, LF, "a">>,
     <<CR, LF, "a", LF>>,
     <<"a", ".", "b">>,
     <<"a", "-", "b", SP>>}

MotionLineBuffers == LineBuffersOf(MotionBuffers)

LiveMotion == ~panicked /\ steps < MaxMotionSteps

LoadMotionLine ==
    /\ LiveMotion
    /\ steps = 0
    /\ \E lb \in MotionLineBuffers :
          Step("set_line_buffer", Command0("None"),
               set_line_buffer(ed, lb, UB_CreateUndoPoint))
    /\ Stay

MoveCursor ==
    /\ LiveMotion
    /\ steps > 0
    /\ \E m \in Motions, select \in BOOLEAN :
          Run(Motion(m, MotionAction("MoveCursor", select)))
    /\ Stay

CopyRange ==
    /\ LiveMotion
    /\ steps > 0
    /\ \E m \in Motions : Run(Motion(m, MotionAction("Copy", FALSE)))
    /\ Stay

CutRange ==
    /\ LiveMotion
    /\ steps > 0
    /\ \E m \in Motions : Run(Motion(m, MotionAction("Cut", FALSE)))
    /\ Stay

DeleteRange ==
    /\ LiveMotion
    /\ steps > 0
    /\ \E m \in Motions : Run(Motion(m, MotionAction("Delete", FALSE)))
    /\ Stay

NextMotion == LoadMotionLine \/ MoveCursor \/ CopyRange \/ CutRange \/ DeleteRange

SpecMotion == Init /\ [][NextMotion]_vars

(***************************************************************************)
(* Claims                                                                  *)
(***************************************************************************)

C2_CurrentEntryIsLiveBuffer ==
    (~panicked /\ last_cmd.api \in {"run_edit_command", "set_buffer", "set_line_buffer"})
        => EditStack_current(ed.edit_stack) = ed.line_buffer

\* a merged edit has replaced the current entry of a stack of several
C2_Witness ==
    /\ ~panicked
    /\ last_cmd.api = "run_edit_command"
    /\ last_cmd.cmd.op = "InsertChar"
    /\ Len(ed.edit_stack.internal_list) = 2
    /\ Len(get_buffer(ed)) >= 2
    /\ Len(ed.edit_stack.internal_list[1].lines) = 0

IsRun(call, ops) == call.api = "run_edit_command" /\ call.cmd.op \in ops

IsTextEdit(call) ==
    call.api = "run_edit_command" /\ edit_type(call.cmd).type = "EditText"

\* C3: undo/redo symmetry: once the commands have been undone down to the
\* oldest state, each Redo reproduces the text that the forward command that
\* committed that undo point had left, and the last Redo of as many as there
\* were Undos ends in the text held before the first Undo
C3_UndoRedoSymmetry ==
    (phase = "redo" /\ ~panicked) =>
        /\ get_buffer(ed) = fwd[ed.edit_stack.index + 1]
        /\ undone = 0 => get_buffer(ed) = saved

\* three undo points of different texts have been undone and redone
C3_Witness ==
    /\ phase = "redo"
    /\ undone = 0
    /\ ed.edit_stack.index >= 2
    /\ fwd[1] # fwd[2]
    /\ fwd[2] # fwd[3]
    /\ get_buffer(ed) = fwd[3]

\* C4: of two consecutive InsertChar commands the second opens a new undo
\* entry exactly when the character inserted before is LF or CR, or is not
\* whitespace while the new one is; otherwise the number of entries is
\* unchanged and the top entry is replaced by the new buffer state
C4_InsertCoalescing ==
    [][(IsRun(last_cmd, {"InsertChar"}) /\ IsRun(last_cmd', {"InsertChar"}) /\ ~panicked') =>
        LET st == ed.edit_stack
            c_prev == last_cmd.cmd.c
            c_new == last_cmd'.cmd.c
        IN  IF c_prev \in {LF, CR} \/ (~is_whitespace(c_prev) /\ is_whitespace(c_new))
            THEN /\ ed'.edit_stack.internal_list =
                        Append(st.internal_list, ed'.line_buffer)
                 /\ ed'.edit_stack.index = st.index + 1
            ELSE /\ ed'.edit_stack.internal_list =
                        [st.internal_list EXCEPT ![st.index + 1] = ed'.line_buffer]
                 /\ ed'.edit_stack.index = st.index
                 /\ undo(ed').line_buffer = undo(ed).line_buffer]_vars

\* "aa" was typed into one undo entry and the space after it opened the next
C4_Witness ==
    /\ IsRun(last_cmd, {"InsertChar"})
    /\ Len(ed.edit_stack.internal_list) = 3
    /\ ed.edit_stack.internal_list[2].lines = <<"a", "a">>
    /\ ed.edit_stack.internal_list[3].lines = <<"a", "a", SP>>

AllWhitespace(str) == \A i \in 1..Len(str) : is_whitespace(str[i])
NoWhitespace(str) == \A i \in 1..Len(str) : ~is_whitespace(str[i])

\* C5: of two consecutive Backspace commands, or two consecutive Delete
\* commands, the second opens a new undo entry when what it removes starts
\* with LF or CR, or when what was removed before is whitespace and what is
\* removed now is not; otherwise it merges into the previous undo entry
C5_DeleteCoalescing ==
    [][(/\ \/ IsRun(last_cmd, {"Backspace"}) /\ IsRun(last_cmd', {"Backspace"})
           \/ IsRun(last_cmd, {"Delete"}) /\ IsRun(last_cmd', {"Delete"})
        /\ ~panicked') =>
        LET st == ed.edit_stack
            terminator == removed' # <<>> /\ removed'[1] \in {LF, CR}
            word_start == removed' # <<>> /\ ~is_whitespace(removed'[1])
        IN  /\ (terminator \/ (removed # <<>> /\ AllWhitespace(removed) /\ word_start))
                => /\ ed'.edit_stack.internal_list =
                          Append(st.internal_list, ed'.line_buffer)
                   /\ ed'.edit_stack.index = st.index + 1
            /\ (~terminator /\ (NoWhitespace(removed) \/ ~word_start))
                => /\ ed'.edit_stack.internal_list =
                          [st.internal_list EXCEPT ![st.index + 1] = ed'.line_buffer]
                   /\ ed'.edit_stack.index = st.index]_vars

\* C6: a command classified as a cursor move never increases the number of
\* entries of the undo stack
C6_CursorMoveKeepsEntries ==
    [][(last_cmd'.api = "run_edit_command" /\ ~panicked'
        /\ edit_type(last_cmd'.cmd).type = "MoveCursor") =>
        Len(ed'.edit_stack.internal_list) <= Len(ed.edit_stack.internal_list)]_vars

\* C7: the first text-modifying command after an Undo or Redo pushes a new
\* undo entry on top of the snapshot the Undo or Redo restored, so that one
\* Undo right after it returns to that snapshot
C7_EditAfterJumpPushes ==
    [][(/\ IsRun(last_cmd, {"Undo", "Redo"}) /\ IsTextEdit(last_cmd') /\ ~panicked'
           => /\ ed'.edit_stack.index = ed.edit_stack.index + 1
              /\ Len(ed'.edit_stack.internal_list) = ed.edit_stack.index + 2
              /\ \A i \in 1..(ed.edit_stack.index + 1) :
                    ed'.edit_stack.internal_list[i] = ed.edit_stack.internal_list[i]
              /\ undo(ed').line_buffer = ed.line_buffer)
       /\ (phase \in {"edit_after_undo", "edit_after_redo"}
           /\ IsRun(last_cmd', {"Undo"}) /\ ~panicked'
           => get_buffer(ed') = saved)]_vars

\* a character typed after an Undo of a typed character, then undone
C7_Witness ==
    /\ phase = "done"
    /\ IsRun(last_cmd, {"Undo"})
    /\ Len(ed.edit_stack.internal_list) >= 3
    /\ ed.edit_stack.index = Len(ed.edit_stack.internal_list) - 2
    /\ get_buffer(ed) = saved
    /\ EditStack_current(EditStack_redo(ed.edit_stack)).lines # saved

\* C8: Undo and Redo move the index by at most one, load the snapshot at the
\* new index and leave the entries alone; Undo at the oldest entry and Redo
\* at the newest leave the index, the text and the insertion point unchanged
C8_UndoRedoFrame ==
    [][(IsRun(last_cmd', {"Undo", "Redo"}) /\ ~panicked') =>
        LET st == ed.edit_stack
            st2 == ed'.edit_stack
        IN  /\ st2.internal_list = st.internal_list
            /\ st2.index \in {st.index - 1, st.index, st.index + 1}
            /\ ed'.line_buffer = st.internal_list[st2.index + 1]
            /\ (\/ last_cmd'.cmd.op = "Undo" /\ st.index = 0
                \/ last_cmd'.cmd.op = "Redo" /\ st.index = Len(st.internal_list) - 1)
                => st2.index = st.index /\ ed'.line_buffer = ed.line_buffer]_vars

\* C9: a text-modifying command after an Undo discards the entries beyond
\* the index the Undo reached and pushes the new state as the newest entry;
\* a Redo after it changes nothing
C9_FutureTruncation ==
    [][(/\ IsRun(last_cmd, {"Undo"}) /\ IsTextEdit(last_cmd') /\ ~panicked'
           => /\ ed'.edit_stack.internal_list =
                    Append(SubSeq(ed.edit_stack.internal_list, 1, ed.edit_stack.index + 1),
                           ed'.line_buffer)
              /\ ed'.edit_stack.index = Len(ed'.edit_stack.internal_list) - 1
              /\ redo(ed').line_buffer = ed'.line_buffer
              /\ redo(ed').edit_stack = ed'.edit_stack)
       /\ (phase = "edit_after_undo" /\ IsRun(last_cmd', {"Redo"}) /\ ~panicked'
           => /\ ed'.line_buffer = ed.line_buffer
              /\ ed'.edit_stack = ed.edit_stack)]_vars

\* two Undos, an edit that dropped the two undone entries, and a Redo
C9_Witness ==
    /\ phase = "done"
    /\ IsRun(last_cmd, {"Redo"})
    /\ undone >= 2
    /\ Len(fwd) = Len(ed.edit_stack.internal_list)
    /\ ed.edit_stack.index = Len(ed.edit_stack.internal_list) - 1
    /\ get_buffer(ed) # saved

\* C10: a cut into the local slot (Motion with action Cut, or CutSelection
\* with an active selection) followed at once by PasteCutBuffer yields the
\* text held before the cut
C10_CutPasteRoundTrip ==
    (phase = "pasted" /\ ~panicked) => get_buffer(ed) = saved


(***************************************************************************)
(* What "the pair enclosing the cursor" means, stated without the scans    *)
(***************************************************************************)

\* occurrences of c among the first k characters of s
Count(s, c, k) == Cardinality({n \in 1..k : s[n] = c})

\* s is properly nested: no prefix closes more than it opened, and all that
\* is opened is closed
Balanced(s, left_char, right_char) ==
    /\ \A k \in 1..Len(s) : Count(s, left_char, k) >= Count(s, right_char, k)
    /\ Count(s, left_char, Len(s)) = Count(s, right_char, Len(s))

\* bracket-like: the pairs <<lp, rp>> of offsets of a left delimiter before
\* the cursor and a right delimiter at or after it with properly nested text
\* between them
EnclosingBrackets(lines, left_char, right_char, cursor) ==
    {p \in (0..(Len(lines) - 1)) \X (0..(Len(lines) - 1)) :
        /\ p[1] < cursor
        /\ cursor <= p[2]
        /\ lines[p[1] + 1] = left_char
        /\ lines[p[2] + 1] = right_char
        /\ Balanced(Slice(lines, p[1] + 1, p[2]), left_char, right_char)}

\* quote-like: the nearest quote at or before the cursor with the nearest
\* quote after it
EnclosingQuotes(lines, quote, cursor) ==
    {p \in (0..(Len(lines) - 1)) \X (0..(Len(lines) - 1)) :
        /\ p[1] <= cursor
        /\ p[1] < p[2]
        /\ lines[p[1] + 1] = quote
        /\ lines[p[2] + 1] = quote
        /\ \A k \in (p[1] + 1)..(p[2] - 1) : lines[k + 1] # quote
        /\ \A k \in (p[1] + 1)..cursor : k < Len(lines) => lines[k + 1] # quote}

Enclosing(e, left_char, right_char) ==
    IF left_char = right_char
    THEN EnclosingQuotes(get_buffer(e), left_char, insertion_point(e))
    ELSE EnclosingBrackets(get_buffer(e), left_char, right_char, insertion_point(e))

\* the innermost of a set of nested pairs
Innermost(pairs) == CHOOSE p \in pairs : \A q \in pairs : q[1] <= p[1]

\* the call is cut_inside / yank_inside, made directly or by run_edit_command
IsPairCall(call, pair) ==
    /\ call.cmd.op = "OperateInsidePair"
    /\ call.cmd.pair = pair
    /\ call.api \in {"run_edit_command", "cut_inside", "yank_inside"}

\* C11: yank_inside(left, right) never changes the buffer text and leaves the
\* insertion point where it was, whether or not a pair encloses the cursor;
\* when a pair with a non-empty interior is found, the local clipboard slot
\* afterwards holds exactly the text strictly between its delimiters
C11_YankInsideFrame ==
    [][IsPairCall(last_cmd', "YankInside") /\ ~panicked' =>
        LET pairs == Enclosing(ed, last_cmd'.cmd.left_char, last_cmd'.cmd.right_char)
        IN  /\ get_buffer(ed') = get_buffer(ed)
            /\ insertion_point(ed') = insertion_point(ed)
            /\ (pairs # {} /\ Innermost(pairs)[1] + 1 < Innermost(pairs)[2] =>
                    ed'.cut_buffer.content =
                        Slice(get_buffer(ed), Innermost(pairs)[1] + 1, Innermost(pairs)[2]))]_vars

\* a yank inside the outer pair of a(b(a)b)a has filled the clipboard and
\* left text and cursor in place
C11_Witness ==
    /\ last_cmd.api = "yank_inside"
    /\ get_buffer(ed) = NestedText
    /\ insertion_point(ed) = 3
    /\ ed.cut_buffer.content = <<"b", "(", "a", ")", "b">>

\* C12: for bracket-like delimiters cut_inside removes exactly the text
\* strictly between the innermost properly nested pair enclosing the cursor,
\* stores it in the clipboard, keeps both delimiters and leaves the cursor just
\* after the left delimiter; so from "foo(bar(baz)qux)quux" at offset 8 it
\* gives "foo(bar()qux)quux" with clipboard "baz", and from there at offset 4
\* "foo()quux" with clipboard "bar()qux"
C12_CutInsideNested ==
    [][IsPairCall(last_cmd', "CutInside") /\ ~panicked'
       /\ last_cmd'.cmd.left_char # last_cmd'.cmd.right_char =>
        LET pairs == Enclosing(ed, last_cmd'.cmd.left_char, last_cmd'.cmd.right_char)
            lp == Innermost(pairs)[1]
            rp == Innermost(pairs)[2]
        IN  /\ (pairs # {} /\ lp + 1 < rp =>
                    /\ get_buffer(ed') =
                           Slice(get_buffer(ed), 0, lp + 1)
                               \o Slice(get_buffer(ed), rp, Len(get_buffer(ed)))
                    /\ ed'.cut_buffer = [content |-> Slice(get_buffer(ed), lp + 1, rp),
                                         mode |-> "Normal"]
                    /\ insertion_point(ed') = lp + 1)
            /\ (get_buffer(ed) = FooText /\ insertion_point(ed) = 8 =>
                    /\ get_buffer(ed') = FooTextInnerCut
                    /\ insertion_point(ed') = 8
                    /\ ed'.cut_buffer.content = <<"b", "a", "z">>)
            /\ (get_buffer(ed) = FooTextInnerCut /\ insertion_point(ed) = 4 =>
                    /\ get_buffer(ed') = FooTextOuterCut
                    /\ insertion_point(ed') = 4
                    /\ ed'.cut_buffer.content = <<"b", "a", "r", "(", ")", "q", "u", "x">>)]_vars

\* the second cut of the scenario has been made
C12_Witness ==
    /\ IsPairCall(last_cmd, "CutInside")
    /\ steps = 4
    /\ get_buffer(ed) = FooTextOuterCut
    /\ insertion_point(ed) = 4
    /\ ed.cut_buffer.content = <<"b", "a", "r", "(", ")", "q", "u", "x">>

\* C13: when no delimiter pair encloses the cursor, cut_inside and
\* yank_inside change neither the buffer text nor the insertion point nor the
\* local clipboard slot, and raise no error
C13_NoPairNoOp ==
    [][/\ IsPairCall(last_cmd', "CutInside") \/ IsPairCall(last_cmd', "YankInside")
       /\ ~panicked
       /\ Enclosing(ed, last_cmd'.cmd.left_char, last_cmd'.cmd.right_char) = {}
       => /\ ~panicked'
          /\ ed'.line_buffer = ed.line_buffer
          /\ ed'.cut_buffer = ed.cut_buffer]_vars

\* a cut was asked for in front of the opening bracket of a line whose
\* clipboard an earlier yank had filled
C13_Witness ==
    /\ last_cmd.api = "cut_inside"
    /\ last_cmd.cmd.left_char = "("
    /\ get_buffer(ed) = NestedText
    /\ insertion_point(ed) = 1
    /\ ed.cut_buffer.content = <<"a">>

\* C14: when cut_inside finds an enclosing pair with an empty interior,
\* buffer and clipboard stay as they are and the cursor moves to the offset
\* just after the left delimiter, from wherever the pair was found
C14_EmptyInteriorMovesCursor ==
    [][IsPairCall(last_cmd', "CutInside") /\ ~panicked' =>
        LET pairs == Enclosing(ed, last_cmd'.cmd.left_char, last_cmd'.cmd.right_char)
        IN  pairs # {} /\ Innermost(pairs)[1] + 1 = Innermost(pairs)[2] =>
                /\ get_buffer(ed') = get_buffer(ed)
                /\ ed'.cut_buffer = ed.cut_buffer
                /\ insertion_point(ed') = Innermost(pairs)[1] + 1]_vars

\* C15: in every reachable state in which get_selection() returns
\* Some((start, end)), start <= end and end <= the length of the buffer
C15_SelectionAscending ==
    ed.selection_anchor # None =>
        /\ get_selection(ed)[1] <= get_selection(ed)[2]
        /\ get_selection(ed)[2] <= Len(get_buffer(ed))

\* a selection made leftwards: the cursor stands before the anchor
C15_Witness ==
    /\ ed.selection_anchor # None
    /\ insertion_point(ed) < ed.selection_anchor
    /\ get_selection(ed)[1] < get_selection(ed)[2]

\* C16: a selecting cursor motion that finds no anchor sets the anchor to the
\* insertion point held before the motion, one that finds an anchor leaves it
\* unchanged; so across a run of consecutive selecting motions the anchor
\* stays at the cursor position held before the first of them
C16_AnchorSetOnce ==
    [][IsSelectingMotion(last_cmd') /\ ~panicked' =>
        /\ ed.selection_anchor = None => ed'.selection_anchor = insertion_point(ed)
        /\ ed.selection_anchor # None => ed'.selection_anchor = ed.selection_anchor
        /\ run_start' # None => ed'.selection_anchor = run_start']_vars

\* the second selecting motion of a run has moved the cursor off the anchor
C16_Witness ==
    /\ IsSelectingMotion(last_cmd)
    /\ steps = 3
    /\ run_start # None
    /\ ed.selection_anchor = run_start
    /\ insertion_point(ed) # run_start
    /\ ed.edit_stack.index > 0
    /\ last_cmd.cmd.motion.kind = "MoveLeft"
    /\ ed.selection_anchor - insertion_point(ed) > 1

\* C17: after run_edit_command of any command that is not a selecting cursor
\* motion (a cursor motion with select = true, or SelectAll) selection_anchor
\* is absent and get_selection() returns None
C17_AnchorCleared ==
    [][/\ last_cmd'.api = "run_edit_command"
       /\ ~panicked'
       /\ ~IsSelectingMotion(last_cmd')
       /\ last_cmd'.cmd.op # "SelectAll"
       => ed'.selection_anchor = None]_vars

\* a selection was copied: the slot is filled and the anchor gone
C17_Witness ==
    /\ last_cmd.api = "run_edit_command"
    /\ last_cmd.cmd.op = "CopySelection"
    /\ ed.cut_buffer.content # <<>>
    /\ ed.selection_anchor = None

\* number of grapheme clusters of a text: a CR LF counts once
GraphemeCount(s) ==
    Len(s) - Cardinality({k \in 1..(Len(s) - 1) : s[k] = CR /\ s[k + 1] = LF})

\* the text get_selection() covers
SelectedText(e) == Slice(get_buffer(e), get_selection(e)[1], get_selection(e)[2])

\* distance of the cursor from the anchor
AnchorDistance(e) ==
    IF insertion_point(e) > e.selection_anchor
    THEN insertion_point(e) - e.selection_anchor
    ELSE e.selection_anchor - insertion_point(e)

\* the call is run_edit_command with a selecting MoveLeft or MoveRight
IsSelectingGraphemeMove(call) ==
    IsSelectingMotion(call) /\ call.cmd.motion.kind \in {"MoveLeft", "MoveRight"}

\* C18: get_selection() is (anchor, grapheme_right_index(insertion_point))
\* when the insertion point is greater than the anchor and (insertion_point,
\* grapheme_right_index(anchor)) otherwise, so that whenever a selecting
\* MoveLeft or MoveRight takes the cursor one grapheme further from the anchor
\* the range grows by exactly one grapheme cluster, at every cursor position,
\* the last grapheme and the end of the buffer included
C18_SelectionGrowsByOne ==
    [][IsSelectingGraphemeMove(last_cmd') /\ ~panicked' =>
        /\ get_selection(ed') =
               IF insertion_point(ed') > ed'.selection_anchor
               THEN <<ed'.selection_anchor, grapheme_right_index(ed'.line_buffer)>>
               ELSE <<insertion_point(ed'),
                      grapheme_right_index_from_pos(ed'.line_buffer, ed'.selection_anchor)>>
        /\ (ed.selection_anchor # None /\ AnchorDistance(ed') > AnchorDistance(ed) =>
                GraphemeCount(SelectedText(ed')) = GraphemeCount(SelectedText(ed)) + 1)]_vars

\* C19: for any buffer and cursor position SelectAll makes get_selection()
\* (0, buffer length) and the selection survives the command; SelectAll
\* followed by CutSelection or CutSelectionSystem leaves an empty buffer and
\* the whole former text in the local slot, or in the system slot when the OS
\* clipboard takes it
C19_SelectAllThenCut ==
    [][last_cmd'.api = "run_edit_command" /\ ~panicked' =>
        /\ last_cmd'.cmd.op = "SelectAll" =>
               /\ ed'.selection_anchor # None
               /\ get_selection(ed') = <<0, Len(get_buffer(ed'))>>
               /\ get_buffer(ed') = get_buffer(ed)
        /\ last_cmd.cmd.op = "SelectAll" /\ last_cmd'.cmd.op = "CutSelection" =>
               /\ get_buffer(ed') = <<>>
               /\ ed'.cut_buffer.content = get_buffer(ed)
        /\ last_cmd.cmd.op = "SelectAll" /\ last_cmd'.cmd.op = "CutSelectionSystem" =>
               /\ get_buffer(ed') = <<>>
               /\ phase' # "os_rejected" => ed'.system_clipboard.content = get_buffer(ed)]_vars

\* a whole line was selected and cut to the system slot
C19_Witness ==
    /\ last_cmd.cmd.op = "CutSelectionSystem"
    /\ phase = "edit"
    /\ get_buffer(ed) = <<>>
    /\ ed.system_clipboard.content = <<"a", CR, LF, "b">>
    /\ ed.selection_anchor = None

\* C20: every cut or copy tags the clipboard slot it writes Character
\* (ClipboardMode::Normal), except the line-wise cut cut_current_line, which
\* removes the whole current line and tags the slot Lines
C20_ClipboardModes ==
    [][~panicked' =>
        IF last_cmd'.api = "cut_current_line"
        THEN /\ ed'.cut_buffer.mode = "Lines"
             /\ Len(get_buffer(ed')) <=
                    Len(get_buffer(ed))
                        - (find_current_line_end(ed.line_buffer)
                               - find_current_line_start(ed.line_buffer))
        ELSE /\ ed'.cut_buffer # ed.cut_buffer => ed'.cut_buffer.mode = "Normal"
             /\ ed'.system_clipboard # ed.system_clipboard =>
                    ed'.system_clipboard.mode = "Normal"]_vars

\* the call is run_edit_command with a Motion whose action is one of acts
IsMotion(call, acts) ==
    /\ call.api = "run_edit_command"
    /\ call.cmd.op = "Motion"
    /\ call.cmd.action.act \in acts

\* the lower and the higher of (cursor, destination of motion) in editor e
RangeLow(e, motion) == Min({insertion_point(e), motion_destination(e, motion)})
RangeHigh(e, motion) == Max({insertion_point(e), motion_destination(e, motion)})

\* C25: a Motion with action Copy, for every MotionKind, leaves the buffer
\* text and the insertion point unchanged and sets the local clipboard slot to
\* exactly the text between the cursor and the motion's destination, the
\* bounds taken in ascending order
C25_CopyMotionFrame ==
    [][IsMotion(last_cmd', {"Copy"}) /\ ~panicked' =>
        /\ ed'.line_buffer = ed.line_buffer
        /\ ed'.cut_buffer =
               [content |-> Slice(get_buffer(ed), RangeLow(ed, last_cmd'.cmd.motion),
                                  RangeHigh(ed, last_cmd'.cmd.motion)),
                mode |-> "Normal"]]_vars

\* a backward motion copied the word left of the cursor
C25_Witness ==
    /\ IsMotion(last_cmd, {"Copy"})
    /\ last_cmd.cmd.motion.kind = "MoveWordLeft"
    /\ get_buffer(ed) = <<"b", SP, "a", "b">>
    /\ insertion_point(ed) = 4
    /\ ed.cut_buffer.content = <<"a", "b">>

\* C26: a Motion with action Cut or Delete, for every MotionKind and
\* direction, removes exactly the bytes between the lower and the higher of
\* (cursor, destination), leaves all other text in order and places the
\* insertion point at the lower bound; with Cut the local clipboard slot
\* afterwards holds exactly the removed text
C26_CutDeleteMotion ==
    [][IsMotion(last_cmd', {"Cut", "Delete"}) /\ ~panicked' =>
        LET lo == RangeLow(ed, last_cmd'.cmd.motion)
            hi == RangeHigh(ed, last_cmd'.cmd.motion)
        IN  /\ get_buffer(ed') =
                   Slice(get_buffer(ed), 0, lo)
                       \o Slice(get_buffer(ed), hi, Len(get_buffer(ed)))
            /\ insertion_point(ed') = lo
            /\ last_cmd'.cmd.action.act = "Cut" =>
                   ed'.cut_buffer.content = Slice(get_buffer(ed), lo, hi)]_vars

\* C27: cutting right until a character c (forward MoveUntilChar with Cut)
\* searches for c strictly after the grapheme under the cursor: when c is
\* found at offset i the text from the cursor up to i (exclusive) or up to
\* and including c (inclusive) is removed; when c does not occur there the
\* buffer is left unchanged
C27_CutRightUntil ==
    [][/\ IsMotion(last_cmd', {"Cut"})
       /\ last_cmd'.cmd.motion.kind = "MoveUntilChar"
       /\ last_cmd'.cmd.motion.forward
       /\ ~panicked'
       => LET from == grapheme_right_index(ed.line_buffer)
              hits == {i \in from..(Len(get_buffer(ed)) - 1) :
                          get_buffer(ed)[i + 1] = last_cmd'.cmd.motion.c}
              upto == IF last_cmd'.cmd.motion.inclusive
                      THEN Min(hits) + 1 ELSE Min(hits)
          IN  IF hits = {}
              THEN get_buffer(ed') = get_buffer(ed)
              ELSE get_buffer(ed') =
                       Slice(get_buffer(ed), 0, insertion_point(ed))
                           \o Slice(get_buffer(ed), upto, Len(get_buffer(ed)))]_vars

\* start of the line offset pos lies on, and the end of the content of the
\* line starting at start (its LF or CR LF terminator excluded)
LineStart(lines, pos) == Max({0} \cup {i \in 1..pos : lines[i] = LF})
LineContentEnd(lines, start) ==
    LET ends == {i \in start..(Len(lines) - 1) : lines[i + 1] = LF}
    IN  IF ends = {} THEN Len(lines)
        ELSE IF Min(ends) > start /\ lines[Min(ends)] = CR THEN Min(ends) - 1
        ELSE Min(ends)

\* where the claim puts the cursor after MoveLineUp / MoveLineDown
LineUpTarget(lines, pos) ==
    LET start == LineStart(lines, pos)
        prev_start == LineStart(lines, start - 1)
    IN  IF start = 0 THEN pos
        ELSE prev_start
                 + Min({pos - start, LineContentEnd(lines, prev_start) - prev_start})

LineDownTarget(lines, pos) ==
    LET start == LineStart(lines, pos)
        feeds == {i \in pos..(Len(lines) - 1) : lines[i + 1] = LF}
        next_start == Min(feeds) + 1
    IN  IF feeds = {} THEN pos
        ELSE next_start
                 + Min({pos - start, LineContentEnd(lines, next_start) - next_start})

\* C28: MoveLineUp (MoveLineDown) moves the cursor onto the previous (next)
\* line at the same column offset from the line start, clamped to the length
\* of that line without its terminator, so the destination lies within the
\* adjacent line; on the first (last) line the cursor does not move; for LF
\* and CRLF terminated lines and target lines shorter than the column
C28_LineUpDownColumn ==
    [][/\ IsMotion(last_cmd', {"MoveCursor"})
       /\ last_cmd'.cmd.motion.kind \in {"MoveLineUp", "MoveLineDown"}
       /\ ~panicked'
       => insertion_point(ed') =
              IF last_cmd'.cmd.motion.kind = "MoveLineUp"
              THEN LineUpTarget(get_buffer(ed), insertion_point(ed))
              ELSE LineDownTarget(get_buffer(ed), insertion_point(ed))]_vars

\* the call is run_edit_command with a command whose op is one of ops
IsCommand(call, ops) == call.api = "run_edit_command" /\ call.cmd.op \in ops

\* the slot a paste command reads, as the command sees it
PastedClip(e, call, os_ok) ==
    IF call.cmd.op = "PasteCutBuffer" THEN e.cut_buffer
    ELSE IF os_ok THEN e.system_clipboard ELSE Clipboard_new

\* text with a line feed appended unless it ends in one
WithLineFeed(text) ==
    IF text # <<>> /\ text[Len(text)] = LF THEN text ELSE Append(text, LF)

\* text with ins inserted at offset pos
InsertedAt(text, pos, ins) ==
    Slice(text, 0, pos) \o ins \o Slice(text, pos, Len(text))

IsStoreCall(call) ==
    \/ IsCommand(call, {"CutSelection", "CopySelection", "CutSelectionSystem",
                        "CopySelectionSystem", "OperateInsidePair"})
    \/ IsMotion(call, {"Cut", "Copy"})
    \/ call.api \in {"cut_current_line", "Clipboard::set"}

\* C22: the two clipboard slots change only through cut, copy and yank
\* operations: insertions, replacements, Backspace, Delete, Motion with
\* MoveCursor or Delete, the word transforms, SelectAll, Undo, Redo and
\* every paste leave both slots as they were
C22_SlotsChangeOnlyByStore ==
    [][~IsStoreCall(last_cmd') /\ ~panicked' =>
        /\ ed'.cut_buffer = ed.cut_buffer
        /\ ed'.system_clipboard = ed.system_clipboard]_vars

\* text was removed by a Motion with Delete while the local slot held text
C22_Witness ==
    /\ IsMotion(last_cmd, {"Delete"})
    /\ removed # <<>>
    /\ ed.cut_buffer.content = <<"B">>

\* C23: the slots are independent: the commands on the local slot
\* (CutSelection, CopySelection, Motion with Cut or Copy, OperateInsidePair)
\* never change the system slot, CutSelectionSystem and CopySelectionSystem
\* never change the local slot, PasteCutBuffer inserts only what the local
\* slot holds and PasteSystem only what the system slot holds
C23_SlotsIndependent ==
    [][~panicked' =>
        /\ (IsCommand(last_cmd', {"CutSelection", "CopySelection", "OperateInsidePair"})
            \/ IsMotion(last_cmd', {"Cut", "Copy"}))
               => ed'.system_clipboard = ed.system_clipboard
        /\ IsCommand(last_cmd', {"CutSelectionSystem", "CopySelectionSystem"})
               => ed'.cut_buffer = ed.cut_buffer
        /\ (IsCommand(last_cmd', {"PasteCutBuffer", "PasteSystem"})
            /\ ed.selection_anchor = None)
               => LET clip == IF last_cmd'.cmd.op = "PasteCutBuffer"
                              THEN ed.cut_buffer ELSE ed.system_clipboard
                  IN  \/ get_buffer(ed') = get_buffer(ed)
                      \/ /\ Len(get_buffer(ed')) = Len(get_buffer(ed))
                                + Len(IF clip.mode = "Lines"
                                      THEN WithLineFeed(clip.content) ELSE clip.content)
                         /\ \E p \in 0..Len(get_buffer(ed)) :
                               get_buffer(ed') =
                                   InsertedAt(get_buffer(ed), p,
                                       IF clip.mode = "Lines"
                                       THEN WithLineFeed(clip.content)
                                       ELSE clip.content)]_vars

\* text was pasted from the system slot while the local slot held none
C23_Witness ==
    /\ IsCommand(last_cmd, {"PasteSystem"})
    /\ ed.system_clipboard.content = <<"B">>
    /\ ed.cut_buffer.content = <<>>
    /\ get_buffer(ed) = <<"a", SP, "B", "b">>

\* C24: when the OS clipboard rejects the request of CutSelectionSystem,
\* CopySelectionSystem or PasteSystem, the local slot is unchanged and no
\* text is removed from the buffer unless it has been stored in a clipboard
\* slot
C24_OsRejected ==
    [][/\ IsCommand(last_cmd', {"CutSelectionSystem", "CopySelectionSystem", "PasteSystem"})
       /\ phase' = "os_rejected"
       /\ ~panicked'
       => /\ ed'.cut_buffer = ed.cut_buffer
          /\ removed' # <<>> =>
                 removed' \in {ed'.cut_buffer.content, ed'.system_clipboard.content}]_vars

\* C29: command execution is total: every variant of EditCommand has a
\* defined effect in run_edit_command, and every variant of MotionKind is
\* among the kinds motion_destination gives a destination
C29_CommandsTotal ==
    /\ phase # "undefined"
    /\ MotionKindVariants \subseteq MotionKinds

\* C30: whenever a selection anchor is present it is a grapheme boundary of
\* the current buffer with 0 <= anchor <= buffer length, after any sequence
\* of run_edit_command, set_buffer, set_line_buffer and edit_buffer calls, a
\* replacement of the buffer while a selection is active included
C30_AnchorValid ==
    ed.selection_anchor # None =>
        /\ 0 <= ed.selection_anchor
        /\ ed.selection_anchor <= Len(get_buffer(ed))
        /\ IsBoundary(get_buffer(ed), ed.selection_anchor)

\* C31: cursor moves are not tracked separately in the undo history: after
\* an Undo followed only by cursor-motion commands the redo entries are
\* still present, and a Redo restores the buffer text the Undo had reverted
C31_RedoAfterCursorMoves ==
    [][/\ phase \in {"undone", "redone"} /\ ~panicked'
       => /\ phase' = "undone" =>
                 Len(ed'.edit_stack.internal_list) - ed'.edit_stack.index
                     = Len(ed.edit_stack.internal_list) - ed.edit_stack.index
          /\ phase' = "redone" => get_buffer(ed') = saved]_vars

\* C32: edit_buffer(func, undo_behavior) is undo-safe: for a func that
\* changes the buffer, a following Undo restores the buffer held before func
\* ran, and a Redo after that Undo restores the state func produced
C32_EditBufferUndoSafe ==
    /\ (phase = "edit_undone" /\ ~panicked) => get_buffer(ed) = saved
    /\ (phase = "edit_redone" /\ ~panicked) =>
           get_buffer(ed) = fwd[ed.edit_stack.index + 1]

\* C33: a run of consecutive set_buffer calls tagged HistoryNavigation
\* contributes exactly one undo entry: the first opens a new entry, each
\* further one replaces it, and a single Undo after the run restores the
\* buffer that was live before the first navigation
C33_NavigationRunMerges ==
    /\ [][phase' = "navigating" =>
            /\ EditStack_current(ed'.edit_stack).lines = get_buffer(ed')
            /\ ed'.edit_stack.index + 1 = Len(ed'.edit_stack.internal_list)
            /\ ed'.edit_stack.index =
                   IF phase = "navigating" THEN ed.edit_stack.index
                   ELSE ed.edit_stack.index + 1
            /\ SubSeq(ed'.edit_stack.internal_list, 1, ed'.edit_stack.index) =
                   SubSeq(ed.edit_stack.internal_list, 1, ed'.edit_stack.index)]_vars
    /\ []((phase = "navigation_undone" /\ ~panicked) => get_buffer(ed) = saved)

\* a run of several navigations was undone by one Undo
C33_Witness ==
    /\ phase = "navigation_undone"
    /\ undone >= 2
    /\ saved = <<"a", SP, "b", "a">>
    /\ get_buffer(ed) = saved

\* text with the range start..end taken out and ins put in its place
Replaced(text, start, end, ins) ==
    Slice(text, 0, start) \o ins \o Slice(text, end, Len(text))

\* what a command that inserts puts into the buffer of editor e
InsertedBy(e, call, os_ok) ==
    CASE call.cmd.op = "InsertChar" -> <<call.cmd.c>>
      [] call.cmd.op = "InsertString" -> call.cmd.str
      [] call.cmd.op = "InsertNewline" -> <<LF>>
      [] call.cmd.op \in {"Backspace", "Delete"} -> <<>>
      [] OTHER -> PastedClip(e, call, os_ok).content

\* C34: with a selection active, InsertChar, InsertString, InsertNewline and
\* the paste commands remove exactly the range get_selection() returns and
\* insert at its start, and Backspace and Delete remove exactly that range
\* and no further grapheme; with no selection active Backspace and Delete
\* remove exactly one grapheme left, respectively right, of the cursor
C34_SelectionReplaced ==
    [][/\ IsCommand(last_cmd', {"InsertChar", "InsertString", "InsertNewline",
                                "PasteCutBuffer", "PasteSystem", "Backspace", "Delete"})
       /\ ~panicked'
       => LET text == get_buffer(ed)
              ins == InsertedBy(ed, last_cmd', phase' = "edit")
          IN  /\ (ed.selection_anchor # None
                  /\ PastedClip(ed, last_cmd', phase' = "edit").mode = "Normal")
                     => get_buffer(ed') =
                            Replaced(text, get_selection(ed)[1], get_selection(ed)[2], ins)
              /\ (ed.selection_anchor = None /\ last_cmd'.cmd.op = "Backspace")
                     => get_buffer(ed') =
                            Replaced(text, grapheme_left_index(ed.line_buffer),
                                     insertion_point(ed), <<>>)
              /\ (ed.selection_anchor = None /\ last_cmd'.cmd.op = "Delete")
                     => get_buffer(ed') =
                            Replaced(text, insertion_point(ed),
                                     grapheme_right_index(ed.line_buffer), <<>>)]_vars

\* a paste replaced the selected "b" of "a b" by the text of the local slot
C34_Witness ==
    /\ IsCommand(last_cmd, {"PasteCutBuffer"})
    /\ ed.cut_buffer = [content |-> <<"B">>, mode |-> "Normal"]
    /\ ed.edit_stack.internal_list[ed.edit_stack.index].lines = <<"a", SP, "b">>
    /\ get_buffer(ed) = <<"a", SP, "B">>

\* C35: CopySelection and CopySelectionSystem with an active selection leave
\* the buffer text and the insertion point unchanged and store exactly the
\* selected text; a paste from the same slot run directly afterwards inserts
\* that copy at the cursor and removes nothing, so the buffer grows by
\* exactly the length of the selection
C35_CopyThenPaste ==
    [][~panicked' /\ phase' = "edit" =>
        /\ (IsCommand(last_cmd', {"CopySelection", "CopySelectionSystem"})
            /\ ed.selection_anchor # None)
               => /\ ed'.line_buffer = ed.line_buffer
                  /\ (IF last_cmd'.cmd.op = "CopySelection"
                      THEN ed'.cut_buffer ELSE ed'.system_clipboard).content
                         = SelectedText(ed)
        /\ \/ IsCommand(last_cmd, {"CopySelection"})
                 /\ IsCommand(last_cmd', {"PasteCutBuffer"})
           \/ IsCommand(last_cmd, {"CopySelectionSystem"}) /\ phase = "edit"
                 /\ IsCommand(last_cmd', {"PasteSystem"})
               => LET clip == PastedClip(ed, last_cmd', TRUE)
                  IN  clip.mode = "Normal" =>
                          get_buffer(ed') =
                              InsertedAt(get_buffer(ed), insertion_point(ed), clip.content)]_vars

\* the whole of "a b" was selected, copied to the system slot and pasted:
\* the text is twice as long
C35_Witness ==
    /\ IsCommand(last_cmd, {"PasteSystem"})
    /\ ed.system_clipboard.content = <<"a", SP, "b">>
    /\ Len(get_buffer(ed)) = 6
    /\ steps = 4

\* offsets of the occurrences of quote in the text of e at or before the
\* cursor, and of those after offset open
QuotesAtOrBefore(e, quote) ==
    {i \in 0..Min({insertion_point(e), Len(get_buffer(e)) - 1}) : get_buffer(e)[i + 1] = quote}
QuotesAfter(e, quote, open) ==
    {j \in (open + 1)..(Len(get_buffer(e)) - 1) : get_buffer(e)[j + 1] = quote}

\* C36: for quote-like delimiters (left = right) cut_inside and yank_inside
\* take the nearest occurrence at or before the cursor as the open marker and
\* the nearest occurrence after it as the close marker, without nesting:
\* the text between the two is stored in the local slot, cut_inside removes
\* it and leaves the cursor right after the opening quote; when either
\* marker is missing the operation changes nothing
C36_QuotePairs ==
    [][/\ IsPairCall(last_cmd', "CutInside") \/ IsPairCall(last_cmd', "YankInside")
       /\ last_cmd'.cmd.left_char = last_cmd'.cmd.right_char
       /\ ~panicked
       => LET quote == last_cmd'.cmd.left_char
              opens == QuotesAtOrBefore(ed, quote)
              open == Max(opens)
              closes == QuotesAfter(ed, quote, open)
              close == Min(closes)
          IN  /\ ~panicked'
              /\ (opens = {} \/ closes = {}) =>
                     ed'.line_buffer = ed.line_buffer /\ ed'.cut_buffer = ed.cut_buffer
              /\ (opens # {} /\ closes # {} /\ open + 1 < close) =>
                     /\ ed'.cut_buffer.content = Slice(get_buffer(ed), open + 1, close)
                     /\ IF last_cmd'.cmd.pair = "CutInside"
                        THEN /\ get_buffer(ed') =
                                    Replaced(get_buffer(ed), open + 1, close, <<>>)
                             /\ insertion_point(ed') = open + 1
                        ELSE ed'.line_buffer = ed.line_buffer]_vars

\* with the cursor between the quotes of a'b'a the cut left the two quotes
\* adjacent, the cursor after the opening quote and b in the local slot
C36_Witness ==
    /\ IsPairCall(last_cmd, "CutInside")
    /\ get_buffer(ed) = <<"a", "'", "'", "a">>
    /\ insertion_point(ed) = 2
    /\ ed.cut_buffer.content = <<"b">>

\* class of the character at offset i: "ws", or for big words "word", or for
\* small words the class the segmentation gives it; joined tells whether a
\* '.' between two word characters belongs to the word
ClassAt(lines, i, big, joined) ==
    IF lines[i + 1] \in Whitespace THEN "ws"
    ELSE IF big THEN "word"
    ELSE IF lines[i + 1] \in WordChars THEN "word"
    ELSE IF /\ joined /\ lines[i + 1] = "." /\ 0 < i /\ i + 1 < Len(lines)
            /\ lines[i] \in WordChars /\ lines[i + 2] \in WordChars
         THEN "word"
    ELSE "punct"

\* start of the word at or before pos: the whitespace directly left of pos
\* is skipped, then the run of one class followed to its start
RECURSIVE WordStart(_, _, _, _, _)
WordStart(lines, pos, big, joined, class) ==
    IF pos = 0 THEN 0
    ELSE IF class = "ws"
         THEN (IF ClassAt(lines, pos - 1, big, joined) = "ws"
               THEN WordStart(lines, pos - 1, big, joined, "ws")
               ELSE WordStart(lines, pos - 1, big, joined,
                              ClassAt(lines, pos - 1, big, joined)))
    ELSE IF ClassAt(lines, pos - 1, big, joined) = class
         THEN WordStart(lines, pos - 1, big, joined, class)
    ELSE pos

\* a Motion with Cut over MoveWordLeft or MoveBigWordLeft removes the text
\* from the start of the word to the cursor
CutWordLeftRemoves(joined) ==
    /\ IsMotion(last_cmd', {"Cut"})
    /\ last_cmd'.cmd.motion.kind \in {"MoveWordLeft", "MoveBigWordLeft"}
    /\ ~panicked'
    => get_buffer(ed') =
           Replaced(get_buffer(ed),
                    WordStart(get_buffer(ed), insertion_point(ed),
                              last_cmd'.cmd.motion.kind = "MoveBigWordLeft", joined, "ws"),
                    insertion_point(ed), <<>>)

\* C37 (as stated): cutting the word left of the cursor removes the text from
\* the start of the small word at or before the cursor up to the cursor, a
\* small word being a maximal run of alphanumeric-or-underscore characters
\* or of one other non-whitespace class, so that '.' and '-' between letters
\* end a word; cutting the big word left removes from the start of the
\* maximal run of non-whitespace characters, whitespace directly left of the
\* cursor skipped
C37_CutWordLeft == [][CutWordLeftRemoves(FALSE)]_vars

\* C37 (amended): the same, except that a '.' directly between two
\* alphanumeric-or-underscore characters does not end the small word; '-'
\* does
C37_CutWordLeftJoined == [][CutWordLeftRemoves(TRUE)]_vars

\* the small word left of the end of "a.b" was cut: it was the whole "a.b"
C37_Witness ==
    /\ IsMotion(last_cmd, {"Cut"})
    /\ last_cmd.cmd.motion.kind = "MoveWordLeft"
    /\ get_buffer(ed) = <<>>
    /\ ed.cut_buffer.content = <<"a", ".", "b">>

\* ---------------------------------------------------------------------
\* The terminal side: the kitty guard and the raw events
\* ---------------------------------------------------------------------

EditorIdle == UNCHANGED <<ed, panicked, phase, undone, fwd, saved, removed, run_start>>

\* a guard method ran: the guard it left and what it wrote
Guarded(api, r) ==
    /\ guard' = r.guard
    /\ written' = written \o r.out
    /\ last_cmd' = Call(api, Command0("None"))
    /\ steps' = steps + 1
    /\ EditorIdle
    /\ UNCHANGED conv

LiveGuard == ~dropped /\ steps < MaxGuardCalls

GuardSet ==
    /\ LiveGuard
    /\ \E enable \in BOOLEAN, available \in BOOLEAN :
          Guarded("KittyProtocolGuard::set",
                  KittyProtocolGuard_set(guard, enable, available))
    /\ UNCHANGED dropped

GuardEnter ==
    /\ LiveGuard
    /\ Guarded("KittyProtocolGuard::enter", KittyProtocolGuard_enter(guard))
    /\ UNCHANGED dropped

GuardExit ==
    /\ LiveGuard
    /\ Guarded("KittyProtocolGuard::exit", KittyProtocolGuard_exit(guard))
    /\ UNCHANGED dropped

\* the guard goes out of scope, at any point
GuardDrop ==
    /\ ~dropped
    /\ Guarded("KittyProtocolGuard::drop", KittyProtocolGuard_drop(guard))
    /\ dropped' = TRUE

NextKitty == GuardSet \/ GuardEnter \/ GuardExit \/ GuardDrop

SpecKitty == Init /\ [][NextKitty]_vars

\* a terminal event is converted
Convert ==
    /\ steps < MaxEvents
    /\ \E event \in Events :
          conv' = [stage |-> "converted", event |-> event, result |-> try_from(event)]
    /\ last_cmd' = Call("ReedlineRawEvent::try_from", Command0("None"))
    /\ steps' = steps + 1
    /\ EditorIdle
    /\ UNCHANGED <<guard, written, dropped>>

\* the raw event is converted back
Unwrap ==
    /\ conv.stage = "converted"
    /\ conv.result.tag = "Ok"
    /\ conv' = [stage |-> "back", event |-> conv.event, result |-> conv.result,
                back |-> Event_from(conv.result.v)]
    /\ last_cmd' = Call("Event::from", Command0("None"))
    /\ UNCHANGED steps
    /\ EditorIdle
    /\ UNCHANGED <<guard, written, dropped>>

NextEvent == Convert \/ Unwrap

SpecEvent == Init /\ [][NextEvent]_vars

\* the number of commands c written
Written(c) == Cardinality({i \in 1..Len(written) : written[i] = c})

\* what one guard call writes, and in which state of the guard
GuardWrites ==
    /\ Len(written') <= Len(written) + 1
    /\ SubSeq(written', 1, Len(written)) = written
    /\ Len(written') = Len(written) + 1 /\ written'[Len(written')] = "push"
       => /\ last_cmd'.api = "KittyProtocolGuard::enter"
          /\ guard.enabled /\ ~guard.active
    /\ Len(written') = Len(written) + 1 /\ written'[Len(written')] = "pop"
       => guard.active

\* C38: over any set, enter and exit calls on a KittyProtocolGuard and its
\* drop, the flags are pushed only by an enter that finds the guard enabled
\* and not active and popped only while the guard is active; pushes and pops
\* alternate strictly, starting with a push; after the drop there are as
\* many pops as pushes, also when set(false) came while the protocol was
\* active
C38_PushPopBalanced ==
    /\ [][GuardWrites]_vars
    /\ [](/\ \A i \in 1..Len(written) :
                written[i] = IF i % 2 = 1 THEN "push" ELSE "pop"
          /\ Written("pop") <= Written("push")
          /\ Written("push") <= Written("pop") + 1
          /\ dropped => Written("pop") = Written("push"))

\* the guard was disabled while active and then dropped: the drop popped
C38_Witness ==
    /\ dropped
    /\ ~guard.enabled /\ guard.active
    /\ written = <<"push", "pop">>

\* C39: the conversion of a terminal event into a ReedlineRawEvent fails
\* exactly for key events of kind Release, turns a Repeat into a Press of
\* the same code, modifiers and state and keeps every other event; no
\* ReedlineRawEvent holds a Release or a Repeat, and converting it back
\* gives the wrapped event
C39_RawEventConversion ==
    conv.stage # "none" =>
        LET event == conv.event
            isKey == event.type = "Key"
        IN  /\ conv.result.tag = "Err" <=> (isKey /\ event.kind = "Release")
            /\ conv.result.tag = "Ok" =>
                 LET wrapped == conv.result.v[1]
                 IN  /\ IF isKey /\ event.kind = "Repeat"
                        THEN /\ wrapped.type = "Key"
                             /\ wrapped.kind = "Press"
                             /\ wrapped.code = event.code
                             /\ wrapped.modifiers = event.modifiers
                             /\ wrapped.state = event.state
                        ELSE wrapped = event
                     /\ wrapped.type = "Key" => wrapped.kind \notin {"Release", "Repeat"}
                     /\ conv.stage = "back" => conv.back = wrapped

\* a repeated Shift-a came in and was taken back out as a press
C39_Witness ==
    /\ conv.stage = "back"
    /\ conv.event = KeyEvent("a", "SHIFT", "Repeat", "CAPS_LOCK")
    /\ conv.back = KeyEvent("a", "SHIFT", "Press", "CAPS_LOCK")

=============================================================================
